---- MODULE Spec2Model ----
(***************************************************************************)
(* NEOM data search: the offline index builders (prepare_index.py and      *)
(* neom_search_v2/build_index.py), the query service (search_service.py)  *)
(* and the content scanner (scan_species_mentions.py), modelled as state   *)
(* machines.                                                               *)
(*                                                                         *)
(* Strings are sequences of one-character strings, so that lower(),        *)
(* strip(), split(), the substring test and the regular-expression search  *)
(* are computed as the code computes them.                                 *)
(***************************************************************************)
EXTENDS Integers, Sequences, FiniteSets, TLC

VARIABLES
    \* prepare_index.main
    p_pc,            \* position of prepare_index.main
    p_inputs,        \* the five metadata CSV files (each a list of rows, or absent)
    p_all_records,   \* local all_records
    p_filters,       \* local filters
    p_texts,         \* local texts
    p_embeddings,    \* local embeddings
    p_file_emb,      \* output_dir/embeddings.npy
    p_file_records,  \* output_dir/records.json
    p_file_filters,  \* output_dir/filters.json
    p_file_texts,    \* output_dir/searchable_texts.txt
    \* neom_search_v2/build_index.main
    b_pc,            \* position of build_index.main
    b_csv,           \* species_mentions_scan.csv, the rows of the scan
    b_records,       \* local records
    b_filter_options,\* local filter_options
    b_embeddings,    \* local embeddings
    b_builds,        \* how many times build_index.main has been started
    file_index,      \* search_index.json
    file_embeddings, \* search_embeddings.npy
    \* search_service
    svc_pc,          \* position of the module-level load of search_service
    records,         \* global records
    categories,      \* global categories
    filters,         \* global filters
    embeddings,      \* global embeddings
    h_handler,       \* the handler that served the last request
    h_request,       \* the parameters of the last request
    h_ranked,        \* search's local ranked_indices at its return
    h_response,      \* the response to the last request
    \* scan_species_mentions.find_matches_in_text
    m_pc,            \* position of a call of find_matches_in_text
    m_text,          \* its argument text
    m_result,        \* its return value
    \* scan_species_mentions.main
    sc_pc,           \* position of scan_species_mentions.main
    sc_tree,         \* the directory tree under ROOT_PATH
    sc_files,        \* local files, the scan targets
    sc_read,         \* what the reader returned to scan_file, per target scanned
    sc_results,      \* local results
    sc_csv,          \* species_mentions_scan.csv as written by main
    \* search_service under concurrent requests
    calls            \* per client: the handler it runs, its position and locals

pvars == <<p_pc, p_inputs, p_all_records, p_filters, p_texts, p_embeddings,
           p_file_emb, p_file_records, p_file_filters, p_file_texts>>

bvars == <<b_pc, b_csv, b_records, b_filter_options, b_embeddings, b_builds,
           file_index, file_embeddings>>

svars == <<svc_pc, records, categories, filters, embeddings>>

hvars == <<h_handler, h_request, h_ranked, h_response>>

mvars == <<m_pc, m_text, m_result>>

scvars == <<sc_pc, sc_tree, sc_files, sc_read, sc_results, sc_csv>>

\* the variables of the scanner and of the concurrent clients
xvars == <<mvars, scvars, calls>>

vars == <<pvars, bvars, svars, hvars, xvars>>

-----------------------------------------------------------------------------
(* Strings *)

\* The characters of the model, in code-point order.
Alphabet ==
    <<" ", "(", ",", "-", ".", "/", "0", "1", "2", ":", "A", "B",
      "C", "D", "E", "F", "G", "H", "I", "J", "K", "L", "M", "N",
      "O", "P", "Q", "R", "S", "T", "U", "V", "W", "X", "Y", "Z",
      "\\", "_", "a", "b", "c", "d", "e", "f", "g", "h", "i", "j",
      "k", "l", "m", "n", "o", "p", "q", "r", "s", "t", "u", "v",
      "w", "x", "y", "z", "|">>

CharSet == {Alphabet[i] : i \in 1..Len(Alphabet)}

\* ord(c): the position of c in code-point order
Ord == [c \in CharSet |-> CHOOSE i \in 1..Len(Alphabet) : Alphabet[i] = c]

UpperChars ==
    <<"A", "B", "C", "D", "E", "F", "G", "H", "I", "J", "K", "L",
      "M", "N", "O", "P", "Q", "R", "S", "T", "U", "V", "W", "X",
      "Y", "Z">>
LowerChars ==
    <<"a", "b", "c", "d", "e", "f", "g", "h", "i", "j", "k", "l",
      "m", "n", "o", "p", "q", "r", "s", "t", "u", "v", "w", "x",
      "y", "z">>

\* str.lower() on one character
LowerChar ==
    [c \in CharSet |->
        IF \E i \in 1..Len(UpperChars) : UpperChars[i] = c
        THEN LowerChars[CHOOSE i \in 1..Len(UpperChars) : UpperChars[i] = c]
        ELSE c]

\* str.lower()
ToLower(s) == [i \in 1..Len(s) |-> LowerChar[s[i]]]

\* needle in hay
Contains(hay, needle) ==
    \E k \in 0..(Len(hay) - Len(needle)) :
        SubSeq(hay, k + 1, k + Len(needle)) = needle

\* str.startswith
StartsWith(s, prefix) ==
    Len(s) >= Len(prefix) /\ SubSeq(s, 1, Len(prefix)) = prefix

\* str.strip(): leading and trailing blanks removed
RECURSIVE LStrip(_)
LStrip(s) == IF s # <<>> /\ Head(s) = " " THEN LStrip(Tail(s)) ELSE s

RECURSIVE RStrip(_)
RStrip(s) ==
    IF s # <<>> /\ s[Len(s)] = " " THEN RStrip(SubSeq(s, 1, Len(s) - 1)) ELSE s

Strip(s) == RStrip(LStrip(s))

\* str.replace(old, new) for single characters
ReplaceChar(s, old, new) == [i \in 1..Len(s) |-> IF s[i] = old THEN new ELSE s[i]]

\* str.split(sep) for a single-character separator: the list of segments
RECURSIVE SplitFrom(_, _, _)
SplitFrom(s, sep, cur) ==
    IF s = <<>> THEN <<cur>>
    ELSE IF Head(s) = sep THEN <<cur>> \o SplitFrom(Tail(s), sep, <<>>)
    ELSE SplitFrom(Tail(s), sep, Append(cur, Head(s)))

Split(s, sep) == SplitFrom(s, sep, <<>>)

\* sep.join(parts)
RECURSIVE Join(_, _)
Join(parts, sep) ==
    IF parts = <<>> THEN <<>>
    ELSE IF Len(parts) = 1 THEN parts[1]
    ELSE parts[1] \o sep \o Join(Tail(parts), sep)

\* str.count(sub): the number of non-overlapping occurrences, leftmost first
RECURSIVE CountOcc(_, _)
CountOcc(s, sub) ==
    IF Len(sub) = 0 \/ Len(s) < Len(sub) THEN 0
    ELSE IF SubSeq(s, 1, Len(sub)) = sub
         THEN 1 + CountOcc(SubSeq(s, Len(sub) + 1, Len(s)), sub)
         ELSE CountOcc(Tail(s), sub)

\* xs[-n:] for n > 0
LastN(xs, n) == IF Len(xs) <= n THEN xs ELSE SubSeq(xs, Len(xs) - n + 1, Len(xs))

\* s < t in Python's string order (code points, shorter prefix first)
RECURSIVE StrLess(_, _)
StrLess(s, t) ==
    IF t = <<>> THEN FALSE
    ELSE IF s = <<>> THEN TRUE
    ELSE IF Ord[Head(s)] # Ord[Head(t)] THEN Ord[Head(s)] < Ord[Head(t)]
    ELSE StrLess(Tail(s), Tail(t))

SeqRange(xs) == {xs[i] : i \in 1..Len(xs)}

\* str.replace(c, '') for a single character
RemoveChar(s, c) == SelectSeq(s, LAMBDA x : x # c)

\* sorted(S) for a set of strings
RECURSIVE SortStrings(_)
SortStrings(S) ==
    IF S = {} THEN <<>>
    ELSE LET m == CHOOSE x \in S : \A y \in S \ {x} : StrLess(x, y)
         IN  <<m>> \o SortStrings(S \ {m})

-----------------------------------------------------------------------------
(* The embedding model (a collaborator): text -> vector.  It is a fixed    *)
(* deterministic function of the text; the model keeps two components, in  *)
(* fixed point, that weigh the letters d and w of the lower-cased text.    *)

Embed(text) ==
    <<CountOcc(ToLower(text), <<"d">>), CountOcc(ToLower(text), <<"w">>)>>

\* a plausible slip: a text that occurs twice is encoded once
EncodeAllDistinct(texts) ==
    LET first == SelectSeq([i \in 1..Len(texts) |-> i],
                           LAMBDA i : \A j \in 1..(i - 1) : texts[j] # texts[i])
    IN  [k \in 1..Len(first) |-> Embed(texts[first[k]])]

\* model.encode(texts): one row per text, in order
EncodeAll(texts) == [i \in 1..Len(texts) |-> Embed(texts[i])]

-----------------------------------------------------------------------------
(* prepare_index.py *)

\* a missing CSV cell, as pandas reads it (NaN); no string of the model equals it
NaN == <<"NaN">>

\* Python's None in a record
None == <<"None">>

\* a file that exists, with its content, and a file that does not exist
File(content) == [exists |-> TRUE, content |-> content]
Absent == [exists |-> FALSE, content |-> <<>>]

\* the literals of the record schema
TABLE == <<"t", "a", "b", "l", "e">>
GEODATABASE == <<"g", "e", "o", "d", "a", "t", "a", "b", "a", "s", "e">>
GDB_LAYER == <<"g", "d", "b", "_", "l", "a", "y", "e", "r">>
SHAPEFILE == <<"s", "h", "a", "p", "e", "f", "i", "l", "e">>
SHP == <<"s", "h", "p">>
IMAGE == <<"i", "m", "a", "g", "e">>
TRUE_STR == <<"t", "r", "u", "e">>

\* clean_text(val)
clean_text(val) == IF val = NaN \/ val = None THEN <<>> ELSE Strip(val)

\* row.get(col) if pd.notna(row.get(col)) else None
notna_or_None(val) == IF val # NaN THEN val ELSE None

\* a plausible slip: segments that start with '.' are kept
meaningful_segments_keep_hidden(path) ==
    SelectSeq(Split(ReplaceChar(path, "\\", "/"), "/"),
              LAMBDA p : p # <<>> /\ ~Contains(p, <<":">>))

\* the path context of build_searchable_text: the meaningful segments
meaningful_segments(path) ==
    SelectSeq(Split(ReplaceChar(path, "\\", "/"), "/"),
              LAMBDA p : p # <<>> /\ ~StartsWith(p, <<".">>) /\ ~Contains(p, <<":">>))

\* a plausible slip: the name is repeated twice instead of three times
searchable_parts_name_twice(record) ==
    (IF record.name # <<>> THEN <<record.name, record.name>> ELSE <<>>)
    \o (IF record.species # <<>> THEN <<record.species, record.species>> ELSE <<>>)
    \o (IF record.activity # <<>> THEN <<record.activity>> ELSE <<>>)
    \o (IF record.filename_tokens # <<>> THEN <<record.filename_tokens>> ELSE <<>>)
    \o (IF record.fields # <<>> THEN <<record.fields>> ELSE <<>>)
    \o (IF record.path # <<>>
        THEN <<Join(LastN(meaningful_segments(record.path), 4), <<" ">>)>>
        ELSE <<>>)

\* the list `parts` of build_searchable_text(record)
searchable_parts(record) ==
    (IF record.name # <<>> THEN <<record.name, record.name, record.name>> ELSE <<>>)
    \o (IF record.species # <<>> THEN <<record.species, record.species>> ELSE <<>>)
    \o (IF record.activity # <<>> THEN <<record.activity>> ELSE <<>>)
    \o (IF record.filename_tokens # <<>> THEN <<record.filename_tokens>> ELSE <<>>)
    \o (IF record.fields # <<>> THEN <<record.fields>> ELSE <<>>)
    \o (IF record.path # <<>>
        THEN <<Join(LastN(meaningful_segments(record.path), 4), <<" ">>)>>
        ELSE <<>>)

\* build_searchable_text(record)
build_searchable_text(record) == Join(searchable_parts(record), <<" ">>)

\* record with record['searchable_text'] = build_searchable_text(record)
with_searchable_text(record) ==
    [k \in DOMAIN record \cup {"searchable_text"} |->
        IF k = "searchable_text" THEN build_searchable_text(record) ELSE record[k]]

\* one row of process_csv_xlsx
csv_xlsx_record(row) ==
    with_searchable_text(
        [type |-> TABLE,
         subtype |-> RemoveChar(clean_text(row.file_extension), "."),
         path |-> clean_text(row.file_path),
         name |-> clean_text(row.file_name),
         species |-> clean_text(row.Species),
         activity |-> clean_text(row.activity),
         filename_tokens |-> clean_text(row.filename_tokens),
         fields |-> clean_text(row.column_names),
         status |-> clean_text(row.status),
         row_count |-> notna_or_None(row.row_count),
         file_size_mb |-> notna_or_None(row.file_size_mb),
         min_date |-> clean_text(row.min_date),
         max_date |-> clean_text(row.max_date)])

\* one row of process_gdb
gdb_record(row) ==
    with_searchable_text(
        [type |-> GEODATABASE,
         subtype |-> GDB_LAYER,
         path |-> clean_text(row.geodatabase),
         name |-> clean_text(row.layer),
         species |-> clean_text(row.Species),
         activity |-> clean_text(row.activity),
         filename_tokens |-> clean_text(row.first_word),
         fields |-> clean_text(row.field_names),
         status |-> clean_text(row.status),
         feature_count |-> notna_or_None(row.feature_count),
         geometry_types |-> clean_text(row.geometry_types),
         crs |-> clean_text(row.crs),
         min_date |-> clean_text(row.min_date),
         max_date |-> clean_text(row.max_date)])

\* one row of process_shp
shp_record(row) ==
    with_searchable_text(
        [type |-> SHAPEFILE,
         subtype |-> SHP,
         path |-> clean_text(row.shapefile_path),
         name |-> clean_text(row.layer_name),
         species |-> clean_text(row.Species),
         activity |-> clean_text(row.activity),
         filename_tokens |-> clean_text(row.first_word),
         fields |-> clean_text(row.field_names),
         status |-> clean_text(row.status),
         feature_count |-> notna_or_None(row.feature_count),
         geometry_types |-> clean_text(row.geometry_types),
         crs |-> clean_text(row.crs),
         min_date |-> clean_text(row.min_date),
         max_date |-> clean_text(row.max_date)])

\* one row of process_images
image_record(row) ==
    with_searchable_text(
        [type |-> IMAGE,
         subtype |-> RemoveChar(clean_text(row.file_extension), "."),
         path |-> clean_text(row.image_path),
         name |-> clean_text(row.file_name),
         species |-> clean_text(row.Species),
         activity |-> clean_text(row.activity),
         filename_tokens |-> clean_text(row.filename_tokens),
         fields |-> <<>>,
         status |-> clean_text(row.status),
         file_size_mb |-> notna_or_None(row.file_size_mb),
         width_px |-> notna_or_None(row.width_px),
         height_px |-> notna_or_None(row.height_px),
         camera_make |-> clean_text(row.camera_make),
         camera_model |-> clean_text(row.camera_model),
         has_gps |-> (row.gps_info # NaN /\ ToLower(row.gps_info) = TRUE_STR)])

\* process_csv_xlsx, process_gdb, process_shp, process_images: one record per row
process_csv_xlsx(rows) == [i \in 1..Len(rows) |-> csv_xlsx_record(rows[i])]
process_gdb(rows) == [i \in 1..Len(rows) |-> gdb_record(rows[i])]
process_shp(rows) == [i \in 1..Len(rows) |-> shp_record(rows[i])]
process_images(rows) == [i \in 1..Len(rows) |-> image_record(rows[i])]

\* main: all_records, each existing metadata file processed in the fixed order
load_all_records(inputs) ==
    (IF inputs.csv_xlsx.exists THEN process_csv_xlsx(inputs.csv_xlsx.content) ELSE <<>>)
    \o (IF inputs.gdb.exists THEN process_gdb(inputs.gdb.content) ELSE <<>>)
    \o (IF inputs.gdb2.exists THEN process_gdb(inputs.gdb2.content) ELSE <<>>)
    \o (IF inputs.shp.exists THEN process_shp(inputs.shp.content) ELSE <<>>)
    \o (IF inputs.images.exists THEN process_images(inputs.images.content) ELSE <<>>)

\* main: the filter tables, the sorted distinct non-empty values of each field
prepare_filters(all_records) ==
    [species |-> SortStrings({r.species : r \in {x \in SeqRange(all_records) : x.species # <<>>}}),
     activity |-> SortStrings({r.activity : r \in {x \in SeqRange(all_records) : x.activity # <<>>}}),
     type |-> SortStrings({r.type : r \in {x \in SeqRange(all_records) : x.type # <<>>}})]

\* r_clean = {k: v for k, v in r.items() if k != 'searchable_text'}
record_clean(r) == [k \in DOMAIN r \ {"searchable_text"} |-> r[k]]

-----------------------------------------------------------------------------
(* Inputs of prepare_index.main: the metadata files *)

\* the longest metadata file of the multi-file inputs, in rows
MaxMetaRows == 2

\* all lists over S of length at most n
RECURSIVE SeqsUpTo(_, _)
SeqsUpTo(S, n) ==
    IF n = 0 THEN {<<>>}
    ELSE LET shorter == SeqsUpTo(S, n - 1)
         IN  shorter \cup {Append(xs, x) : xs \in shorter, x \in S}

CsvXlsxRow(path, name, species, activity, tokens, cols) ==
    [file_extension |-> <<".", "c", "s", "v">>, file_path |-> path, file_name |-> name,
     Species |-> species, activity |-> activity, filename_tokens |-> tokens,
     column_names |-> cols, status |-> <<"o", "k">>, row_count |-> <<"1", "2">>,
     file_size_mb |-> NaN, min_date |-> NaN, max_date |-> <<"2", "0", "2", "1">>]

GdbRow(gdb, layer, species) ==
    [geodatabase |-> gdb, layer |-> layer, Species |-> species, activity |-> NaN,
     first_word |-> layer, field_names |-> <<"i", "d">>, status |-> <<"o", "k">>,
     feature_count |-> <<"2">>, geometry_types |-> NaN, crs |-> NaN,
     min_date |-> NaN, max_date |-> NaN]

ShpRow(shp, layer, species) ==
    [shapefile_path |-> shp, layer_name |-> layer, Species |-> species,
     activity |-> <<"s", "u", "r", "v", "e", "y">>, first_word |-> NaN, field_names |-> NaN,
     status |-> <<"o", "k">>, feature_count |-> NaN, geometry_types |-> NaN, crs |-> NaN,
     min_date |-> NaN, max_date |-> NaN]

ImageRow(path, name, species, gps) ==
    [file_extension |-> <<".", "g">>, image_path |-> path, file_name |-> name,
     Species |-> species, activity |-> NaN, filename_tokens |-> NaN,
     status |-> <<"o", "k">>, file_size_mb |-> <<"1", ".", "2">>, width_px |-> NaN, height_px |-> <<"1", "0">>,
     camera_make |-> NaN, camera_model |-> NaN, gps_info |-> gps]

\* single-row inputs: every combination of the fields build_searchable_text reads
TextNames == {NaN, <<"a", ".", "c", "s", "v">>, <<" ", "D", "u", "g", "o", "n", "g", " ">>}
TextSpecies == {NaN, <<"d", "u", "g", "o", "n", "g">>, <<"a">>}
TextActivities == {NaN, <<"s", "u", "r", "v", "e", "y">>}
TextTokens == {NaN, <<"a", " ", "c", "s", "v">>}
TextFields == {NaN, <<"i", "d", ",", "d", "a", "t", "e">>}
TextPaths == {NaN, <<"/", "r", "/", "d", "/", "s", "/", "t", "/", "u", "/", "a", ".", "c", "s", "v">>, <<"C", ":", "\\", "d", "\\", ".", "g", "\\", "s", "\\", "a", ".", "c", "s", "v">>, <<"d", "/", "/", "D", "u", "g", "o", "n", "g">>, <<"C", ":", "\\", ".", "g">>}

NoInputs == [csv_xlsx |-> Absent, gdb |-> Absent, gdb2 |-> Absent, shp |-> Absent,
             images |-> Absent]

SingleRowInputs ==
    {[NoInputs EXCEPT !.csv_xlsx = File(<<CsvXlsxRow(p, n, sp, a, t, f)>>)] :
        p \in TextPaths, n \in TextNames, sp \in TextSpecies, a \in TextActivities,
        t \in TextTokens, f \in TextFields}

\* multi-file inputs: each file absent or a short list of rows
MetaCsvRows == {CsvXlsxRow(<<"/", "d", "/", "a", ".", "c", "s", "v">>, <<"a", ".", "c", "s", "v">>, <<"d", "u", "g", "o", "n", "g">>, NaN, NaN, NaN),
                CsvXlsxRow(<<"/", "w", "/", "b", ".", "c", "s", "v">>, <<"b", ".", "c", "s", "v">>, <<"w", "h", "a", "l", "e">>, <<"s", "u", "r", "v", "e", "y">>, NaN, NaN)}
MetaImageRows == {ImageRow(<<"/", "d", "/", "w", ".", "g">>, <<"w", ".", "g">>, <<"w", "h", "a", "l", "e">>, <<"T", "r", "u", "e">>),
                  ImageRow(<<"/", "d", "/", "x", ".", "g">>, <<"x", ".", "g">>, NaN, NaN)}

MultiFileInputs ==
    {[csv_xlsx |-> c, gdb |-> g, gdb2 |-> g2, shp |-> sh, images |-> im] :
        c \in {Absent} \cup {File(rows) : rows \in SeqsUpTo(MetaCsvRows, MaxMetaRows)},
        g \in {Absent, File(<<GdbRow(<<"/", "d", "/", "s", ".", "g", "d", "b">>, <<"d", "w">>, <<"d", "u", "g", "o", "n", "g">>)>>)},
        g2 \in {Absent, File(<<GdbRow(<<"/", "d", "/", "t", ".", "g", "d", "b">>, <<"w", "w">>, NaN)>>)},
        sh \in {Absent, File(<<ShpRow(<<"/", "d", "/", "c", ".", "s", "h", "p">>, <<"c">>, <<"w", "h", "a", "l", "e">>)>>)},
        im \in {Absent} \cup {File(rows) : rows \in SeqsUpTo(MetaImageRows, MaxMetaRows)}}

-----------------------------------------------------------------------------
(* prepare_index.main as a sequence of steps *)

\* filters before it is assigned
NoFilters == [species |-> <<>>, activity |-> <<>>, type |-> <<>>]

PrepareInit(inputs) ==
    /\ p_pc = "start"
    /\ p_inputs \in inputs
    /\ p_all_records = <<>>
    /\ p_filters = NoFilters
    /\ p_texts = <<>>
    /\ p_embeddings = <<>>
    /\ p_file_emb = Absent
    /\ p_file_records = Absent
    /\ p_file_filters = [exists |-> FALSE, content |-> NoFilters]
    /\ p_file_texts = Absent

PrepareOff ==
    /\ p_pc = "off"
    /\ p_inputs = NoInputs
    /\ p_all_records = <<>>
    /\ p_filters = NoFilters
    /\ p_texts = <<>>
    /\ p_embeddings = <<>>
    /\ p_file_emb = Absent
    /\ p_file_records = Absent
    /\ p_file_filters = [exists |-> FALSE, content |-> NoFilters]
    /\ p_file_texts = Absent

\* lines 177-232: the metadata files are processed and the filter tables built
PrepareLoad ==
    /\ p_pc = "start"
    /\ p_all_records' = load_all_records(p_inputs)
    /\ p_filters' = prepare_filters(load_all_records(p_inputs))
    /\ p_pc' = "loaded"
    /\ UNCHANGED <<p_inputs, p_texts, p_embeddings, p_file_emb, p_file_records,
                   p_file_filters, p_file_texts>>

\* lines 239-245: texts and their embeddings
PrepareEncode ==
    /\ p_pc = "loaded"
    /\ p_texts' = [i \in 1..Len(p_all_records) |-> p_all_records[i].searchable_text]
    /\ p_embeddings' =
          EncodeAll([i \in 1..Len(p_all_records) |-> p_all_records[i].searchable_text])
    /\ p_pc' = "encoded"
    /\ UNCHANGED <<p_inputs, p_all_records, p_filters, p_file_emb, p_file_records,
                   p_file_filters, p_file_texts>>

\* line 251: np.save(embeddings.npy)
PrepareSaveEmbeddings ==
    /\ p_pc = "encoded"
    /\ p_file_emb' = File(p_embeddings)
    /\ p_pc' = "saved_embeddings"
    /\ UNCHANGED <<p_inputs, p_all_records, p_filters, p_texts, p_embeddings,
                   p_file_records, p_file_filters, p_file_texts>>

\* lines 253-260: records.json, without searchable_text
PrepareSaveRecords ==
    /\ p_pc = "saved_embeddings"
    /\ p_file_records' =
          File([i \in 1..Len(p_all_records) |-> record_clean(p_all_records[i])])
    /\ p_pc' = "saved_records"
    /\ UNCHANGED <<p_inputs, p_all_records, p_filters, p_texts, p_embeddings,
                   p_file_emb, p_file_filters, p_file_texts>>

\* lines 262-264: filters.json
PrepareSaveFilters ==
    /\ p_pc = "saved_records"
    /\ p_file_filters' = [exists |-> TRUE, content |-> p_filters]
    /\ p_pc' = "saved_filters"
    /\ UNCHANGED <<p_inputs, p_all_records, p_filters, p_texts, p_embeddings,
                   p_file_emb, p_file_records, p_file_texts>>

\* lines 266-269: searchable_texts.txt, and the script ends
PrepareSaveTexts ==
    /\ p_pc = "saved_filters"
    /\ p_file_texts' = File(p_texts)
    /\ p_pc' = "done"
    /\ UNCHANGED <<p_inputs, p_all_records, p_filters, p_texts, p_embeddings,
                   p_file_emb, p_file_records, p_file_filters>>

NextPrepare ==
    \/ PrepareLoad
    \/ PrepareEncode
    \/ PrepareSaveEmbeddings
    \/ PrepareSaveRecords
    \/ PrepareSaveFilters
    \/ PrepareSaveTexts

InitPrepare == PrepareInit(SingleRowInputs \cup MultiFileInputs)

-----------------------------------------------------------------------------
(* C4: the weighting of name and species in build_searchable_text *)

\* the records built so far whose name and species are both non-empty
NamedRecords ==
    {r \in SeqRange(p_all_records) : r.name # <<>> /\ r.species # <<>>}

\* the parts of the text other than the three copies of the name
PartsAfterName(r) == SubSeq(searchable_parts(r), 4, Len(searchable_parts(r)))

\* the parts of the text other than the two copies of the species
PartsBesideSpecies(r) ==
    SubSeq(searchable_parts(r), 1, 3)
    \o SubSeq(searchable_parts(r), 6, Len(searchable_parts(r)))

NoPartContains(parts, x) == \A i \in 1..Len(parts) : ~Contains(parts[i], x)

-----------------------------------------------------------------------------
(* neom_search_v2/build_index.py *)

CATEGORIES ==
    <<"marine_mammals", "sharks_rays", "reptiles", "fish", "birds",
      "invertebrates_habitat", "survey_types", "places", "data_types",
      "conservation">>

CategorySet == SeqRange(CATEGORIES)

\* the characters of each category name, as f"{cat}: ..." writes them
CategoryName ==
    [marine_mammals |-> <<"m", "a", "r", "i", "n", "e", "_", "m", "a", "m", "m", "a", "l", "s">>,
     sharks_rays |-> <<"s", "h", "a", "r", "k", "s", "_", "r", "a", "y", "s">>,
     reptiles |-> <<"r", "e", "p", "t", "i", "l", "e", "s">>,
     fish |-> <<"f", "i", "s", "h">>,
     birds |-> <<"b", "i", "r", "d", "s">>,
     invertebrates_habitat |-> <<"i", "n", "v", "e", "r", "t", "e", "b", "r", "a", "t", "e", "s", "_", "h", "a", "b", "i", "t", "a", "t">>,
     survey_types |-> <<"s", "u", "r", "v", "e", "y", "_", "t", "y", "p", "e", "s">>,
     places |-> <<"p", "l", "a", "c", "e", "s">>,
     data_types |-> <<"d", "a", "t", "a", "_", "t", "y", "p", "e", "s">>,
     conservation |-> <<"c", "o", "n", "s", "e", "r", "v", "a", "t", "i", "o", "n">>]

SUCCESS == <<"s", "u", "c", "c", "e", "s", "s">>
ERROR_STATUS == <<"e", "r", "r", "o", "r">>

\* the folder names of build_searchable_text(row): segments longer than 2
\* characters that hold no '.'
index_folders(path) ==
    SelectSeq(Split(ReplaceChar(path, "\\", "/"), "/"),
              LAMBDA p : Len(p) > 2 /\ ~Contains(p, <<".">>))

\* the parts "<cat>: <value>" of build_searchable_text(row), from position k on
RECURSIVE index_category_parts(_, _)
index_category_parts(row, k) ==
    IF k > Len(CATEGORIES) THEN <<>>
    ELSE LET cat == CATEGORIES[k]
         IN  (IF row[cat] # NaN /\ row[cat] # <<>>
              THEN <<CategoryName[cat] \o <<":", " ">> \o row[cat]>>
              ELSE <<>>)
             \o index_category_parts(row, k + 1)

\* build_searchable_text(row) of build_index.py
index_build_searchable_text(row) ==
    Join((IF row.file_name # NaN THEN <<<<"f", "i", "l", "e", "n", "a", "m", "e", ":", " ">> \o row.file_name>> ELSE <<>>)
         \o (IF row.file_type # NaN THEN <<<<"t", "y", "p", "e", ":", " ">> \o row.file_type>> ELSE <<>>)
         \o index_category_parts(row, 1)
         \o (IF row.file_path # NaN /\ index_folders(row.file_path) # <<>>
             THEN <<<<"l", "o", "c", "a", "t", "i", "o", "n", ":", " ">> \o Join(LastN(index_folders(row.file_path), 4), <<" ">>)>>
             ELSE <<>>),
         <<" ", "|", " ">>)

\* a plausible slip: the status filter is left out
df_success_unfiltered(df) == df

\* df[df['status'] == 'success']
df_success(df) == SelectSeq(df, LAMBDA row : row.status = SUCCESS)

\* [v.strip() for v in str(val).split(',')]
split_values(val) == {Strip(v) : v \in SeqRange(Split(val, ","))}

\* filter_options[cat]: the sorted distinct values of the category
index_filter_options(rows, cat) ==
    SortStrings(UNION {split_values(rows[i][cat]) :
                          i \in {j \in 1..Len(rows) : rows[j][cat] # NaN /\ rows[j][cat] # <<>>}})

\* one record of the JSON index
index_record(row) ==
    [k \in {"file_path", "file_name", "file_type", "searchable_text"} \cup CategorySet |->
        CASE k = "searchable_text" -> index_build_searchable_text(row)
          [] k \in CategorySet -> (IF row[k] # NaN THEN row[k] ELSE <<>>)
          [] OTHER -> row[k]]

\* main, lines 89-102: records
index_records(df) ==
    [i \in 1..Len(df_success(df)) |-> index_record(df_success(df)[i])]

\* main, lines 78-87: filter_options
index_filters(df) == [cat \in CategorySet |-> index_filter_options(df_success(df), cat)]

\* texts = [r['searchable_text'] for r in records]
record_texts(recs) == [i \in 1..Len(recs) |-> recs[i].searchable_text]

\* the content of search_index.json
IndexJson(recs, filter_options) ==
    [records |-> recs, categories |-> CATEGORIES, filters |-> filter_options]

NoIndexJson == IndexJson(<<>>, [cat \in CategorySet |-> <<>>])

-----------------------------------------------------------------------------
(* Inputs of build_index.main: the rows of species_mentions_scan.csv *)

\* the longest scan artifact, in rows
MaxScanRows == 2

\* how many times build_index.main is run
MaxBuilds == 2

ScanRow(path, name, type, status, error, mammals, places) ==
    [k \in {"file_path", "file_name", "file_type", "status", "error"} \cup CategorySet |->
        CASE k = "file_path" -> path
          [] k = "file_name" -> name
          [] k = "file_type" -> type
          [] k = "status" -> status
          [] k = "error" -> error
          [] k = "marine_mammals" -> mammals
          [] k = "places" -> places
          [] OTHER -> NaN]

RowA == ScanRow(<<"/", "d", "/", "D", "u", "g", "o", "n", "g", "/", "a", ".", "c", "s", "v">>, <<"a", ".", "c", "s", "v">>, <<"c", "s", "v">>, SUCCESS, NaN, <<"d", "u", "g", "o", "n", "g">>, NaN)
RowB == ScanRow(<<"/", "w", "/", "A", ".", "c", "s", "v">>, <<"A", ".", "c", "s", "v">>, <<"c", "s", "v">>, SUCCESS, NaN, <<"d", "u", "g", "o", "n", "g", ",", "w", "h", "a", "l", "e">>, <<"G", "u", "l", "f">>)
RowC == ScanRow(<<"/", "g", "/", "b", ".", "g", "d", "b">>, <<"b", ".", "g", "d", "b">>, <<"g", "e", "o", "d", "a", "t", "a", "b", "a", "s", "e">>, SUCCESS, NaN, NaN, <<"g", "u", "l", "f", ",", " ", "R", "e", "d", " ", "S", "e", "a">>)
RowE == ScanRow(<<"/", "d", "/", "x", ".", "c", "s", "v">>, <<"x", ".", "c", "s", "v">>, <<"c", "s", "v">>, ERROR_STATUS, <<"E", "R", "R", "O", "R", ":", " ", "x">>, NaN, NaN)

BuildScanRows == {RowA, RowB, RowE}

BuildCsvs == SeqsUpTo(BuildScanRows, MaxScanRows)

-----------------------------------------------------------------------------
(* build_index.main as a sequence of steps *)

BuildInit ==
    /\ b_pc = "start"
    /\ b_csv \in BuildCsvs
    /\ b_records = <<>>
    /\ b_filter_options = NoIndexJson.filters
    /\ b_embeddings = <<>>
    /\ b_builds = 1
    /\ file_index = [exists |-> FALSE, content |-> NoIndexJson]
    /\ file_embeddings = Absent

BuildOff ==
    /\ b_pc = "off"
    /\ b_csv = <<>>
    /\ b_records = <<>>
    /\ b_filter_options = NoIndexJson.filters
    /\ b_embeddings = <<>>
    /\ b_builds = 0
    /\ file_index = [exists |-> FALSE, content |-> NoIndexJson]
    /\ file_embeddings = Absent

\* lines 65-102: the scan is read, filtered to the successful rows, and the
\* searchable texts, filter options and records are built
BuildRecords ==
    /\ b_pc = "start"
    /\ b_records' = index_records(b_csv)
    /\ b_filter_options' = index_filters(b_csv)
    /\ b_pc' = "built"
    /\ UNCHANGED <<b_csv, b_embeddings, b_builds, file_index, file_embeddings>>

\* lines 104-111: search_index.json is written
BuildSaveIndex ==
    /\ b_pc = "built"
    /\ file_index' = [exists |-> TRUE, content |-> IndexJson(b_records, b_filter_options)]
    /\ b_pc' = "index_saved"
    /\ UNCHANGED <<b_csv, b_records, b_filter_options, b_embeddings, b_builds,
                   file_embeddings>>

\* lines 113-118: the embeddings of the records' texts
BuildEncode ==
    /\ b_pc = "index_saved"
    /\ b_embeddings' = EncodeAll(record_texts(b_records))
    /\ b_pc' = "encoded"
    /\ UNCHANGED <<b_csv, b_records, b_filter_options, b_builds, file_index,
                   file_embeddings>>

\* line 120: search_embeddings.npy is written, and the script ends
BuildSaveEmbeddings ==
    /\ b_pc = "encoded"
    /\ file_embeddings' = File(b_embeddings)
    /\ b_pc' = "done"
    /\ UNCHANGED <<b_csv, b_records, b_filter_options, b_embeddings, b_builds,
                   file_index>>

\* the script is stopped between two steps (killed, or the encoder raises)
BuildStop ==
    /\ b_pc \in {"start", "built", "index_saved", "encoded"}
    /\ b_pc' = "stopped"
    /\ UNCHANGED <<b_csv, b_records, b_filter_options, b_embeddings, b_builds,
                   file_index, file_embeddings>>

\* the script is run again, on a new scan artifact, over the files left on disk
BuildAgain ==
    /\ b_pc \in {"done", "stopped"}
    /\ b_builds < MaxBuilds
    /\ b_csv' \in BuildCsvs
    /\ b_records' = <<>>
    /\ b_filter_options' = NoIndexJson.filters
    /\ b_embeddings' = <<>>
    /\ b_builds' = b_builds + 1
    /\ b_pc' = "start"
    /\ UNCHANGED <<file_index, file_embeddings>>

-----------------------------------------------------------------------------
(* search_service.py: the search handler *)

\* `if value:` for an Optional[str] parameter
Truthy(value) == value # None /\ value # <<>>

\* re.compile(pattern) succeeds.  The patterns of the model are literals, the
\* wildcard '.', and '(' which, never closed, is an unterminated subpattern.
RegexValid(pattern) == ~Contains(pattern, <<"(">>)

\* re.compile(pattern, re.IGNORECASE).search(text) finds a match
RegexSearch(pattern, text) ==
    \E k \in 0..(Len(text) - Len(pattern)) :
        \A i \in 1..Len(pattern) :
            \/ pattern[i] = "."
            \/ LowerChar[pattern[i]] = LowerChar[text[k + i]]

\* a plausible slip: the filter value is compared as given, not lower-cased
category_filter_value_as_given(recs, candidate_indices, cat, filter_val) ==
    SelectSeq(candidate_indices,
              LAMBDA i : Contains(ToLower(recs[i][cat]), filter_val))

\* lines 104-107: one category filter applied to the candidates
category_filter(recs, candidate_indices, cat, filter_val) ==
    SelectSeq(candidate_indices,
              LAMBDA i : Contains(ToLower(recs[i][cat]), ToLower(filter_val)))

\* a plausible slip: each filter is applied to all records, so the last one wins
RECURSIVE category_filters_last_wins(_, _, _, _)
category_filters_last_wins(recs, candidate_indices, req, k) ==
    IF k > Len(CATEGORIES) THEN candidate_indices
    ELSE category_filters_last_wins(
            recs,
            IF Truthy(req[CATEGORIES[k]])
            THEN category_filter(recs, [i \in 1..Len(recs) |-> i], CATEGORIES[k],
                                 req[CATEGORIES[k]])
            ELSE candidate_indices,
            req, k + 1)

\* lines 100-107: the category filters, applied one after the other
RECURSIVE apply_category_filters(_, _, _, _)
apply_category_filters(recs, candidate_indices, req, k) ==
    IF k > Len(CATEGORIES) THEN candidate_indices
    ELSE apply_category_filters(
            recs,
            IF Truthy(req[CATEGORIES[k]])
            THEN category_filter(recs, candidate_indices, CATEGORIES[k], req[CATEGORIES[k]])
            ELSE candidate_indices,
            req, k + 1)

\* lines 110-114: the file type filter
apply_file_type(recs, candidate_indices, req) ==
    IF Truthy(req.file_type)
    THEN SelectSeq(candidate_indices, LAMBDA i : recs[i].file_type = req.file_type)
    ELSE candidate_indices

\* the test of lines 122 and 133: the pattern matches the text or the path
regex_matches(recs, pattern, i) ==
    RegexSearch(pattern, recs[i].searchable_text) \/ RegexSearch(pattern, recs[i].file_path)

\* lines 117-123: the include filter (of a valid pattern)
apply_include(recs, candidate_indices, req) ==
    IF Truthy(req.include)
    THEN SelectSeq(candidate_indices, LAMBDA i : regex_matches(recs, req.include, i))
    ELSE candidate_indices

\* a plausible slip: the exclude filter keeps the records it should drop
apply_exclude_inverted(recs, candidate_indices, req) ==
    IF Truthy(req.exclude)
    THEN SelectSeq(candidate_indices, LAMBDA i : regex_matches(recs, req.exclude, i))
    ELSE candidate_indices

\* lines 128-134: the exclude filter (of a valid pattern)
apply_exclude(recs, candidate_indices, req) ==
    IF Truthy(req.exclude)
    THEN SelectSeq(candidate_indices, LAMBDA i : ~regex_matches(recs, req.exclude, i))
    ELSE candidate_indices

\* lines 97-136: candidate_indices when the ranking starts
candidates(recs, req) ==
    apply_exclude(recs,
        apply_include(recs,
            apply_file_type(recs,
                apply_category_filters(recs, [i \in 1..Len(recs) |-> i], req, 1),
                req),
            req),
        req)

\* the request returns at line 125, or at line 136
include_error(req) == Truthy(req.include) /\ ~RegexValid(req.include)
exclude_error(req) ==
    ~include_error(req) /\ Truthy(req.exclude) /\ ~RegexValid(req.exclude)

\* line 144: the dot product of an embedding row and the query vector
Dot(u, v) == u[1] * v[1] + u[2] * v[2]

\* sims of line 144: one score per candidate
similarities(embs, candidate_indices, q) ==
    [k \in 1..Len(candidate_indices) |-> Dot(embs[candidate_indices[k]], Embed(q))]

\* all orders of 1..n
Orders(n) == {p \in [1..n -> 1..n] : \A i, j \in 1..n : i # j => p[i] # p[j]}

\* a plausible slip: the scores are sorted ascending
argsort_ascending(sims) ==
    {p \in Orders(Len(sims)) :
        \A i, j \in 1..Len(sims) : i < j => sims[p[i]] <= sims[p[j]]}

\* np.argsort(-sims): an order that sorts the scores descending.  The default
\* sort kind is not stable, so equal scores may come out in either order.
argsort_descending(sims) ==
    {p \in Orders(Len(sims)) :
        \A i, j \in 1..Len(sims) : i < j => sims[p[i]] >= sims[p[j]]}

\* a plausible slip: the names are compared as stored, upper case first
name_key_as_stored(name) == name

\* the sort key of line 154: records[i]['file_name'].lower()
name_key(name) == ToLower(name)

\* sorted(xs, key=...): Python's stable sort, by insertion
RECURSIVE insert_by_name(_, _, _)
insert_by_name(recs, sorted, i) ==
    IF sorted = <<>> THEN <<i>>
    ELSE IF StrLess(name_key(recs[i].file_name), name_key(recs[Head(sorted)].file_name))
         THEN <<i>> \o sorted
         ELSE <<Head(sorted)>> \o insert_by_name(recs, Tail(sorted), i)

\* line 154: the candidates sorted by file name; the last candidate is
\* inserted behind every earlier one it does not precede
RECURSIVE sorted_by_name(_, _)
sorted_by_name(recs, candidate_indices) ==
    IF candidate_indices = <<>> THEN <<>>
    ELSE insert_by_name(recs,
                        sorted_by_name(recs, SubSeq(candidate_indices, 1,
                                                    Len(candidate_indices) - 1)),
                        candidate_indices[Len(candidate_indices)])

\* xs[:limit], for any integer limit
slice_to(xs, limit) ==
    IF limit >= Len(xs) THEN xs
    ELSE IF limit >= 0 THEN SubSeq(xs, 1, limit)
    ELSE IF Len(xs) + limit > 0 THEN SubSeq(xs, 1, Len(xs) + limit)
    ELSE <<>>

\* round(score, 4): a score counts half ten-thousandths, the result counts
\* ten-thousandths, and a half goes to the even neighbour
round4(score) ==
    IF score % 2 = 0 THEN score \div 2
    ELSE IF ((score - 1) \div 2) % 2 = 0 THEN (score - 1) \div 2
    ELSE (score + 1) \div 2

\* line 139: q.strip() is not empty
is_semantic(req) == Strip(req.q) # <<>>

\* lines 161-176: one row of results
result_row(recs, cats, idx, scored, score) ==
    LET rec == recs[idx]
        shown == {c \in SeqRange(cats) : rec[c] # <<>>}
    IN  [k \in {"file_name", "file_path", "file_type"}
                \cup (IF scored THEN {"score"} ELSE {}) \cup shown |->
            IF k = "score" THEN round4(score) ELSE rec[k]]

\* a plausible slip: the error payload carries an empty result list
error_response_with_results(req) ==
    [error |-> <<"I", "n", "c", "l", "u", "d", "e", " ", "r", "e", "g", "e", "x", " ", "e", "r", "r", "o", "r">>, total_matches |-> 0, showing |-> 0,
     results |-> <<>>]

\* lines 125 and 136: the error payload
error_response(req) ==
    IF include_error(req)
    THEN [error |-> <<"I", "n", "c", "l", "u", "d", "e", " ", "r", "e", "g", "e", "x", " ", "e", "r", "r", "o", "r">>]
    ELSE [error |-> <<"E", "x", "c", "l", "u", "d", "e", " ", "r", "e", "g", "e", "x", " ", "e", "r", "r", "o", "r">>]

\* lines 158-182: the response built from the ranking
search_response(recs, cats, req, ranked_indices, ranked_scores) ==
    LET shown_indices == slice_to(ranked_indices, req.limit)
        shown_scores == slice_to(ranked_scores, req.limit)
    IN  [total_matches |-> Len(ranked_indices),
         showing |-> Len(shown_indices),
         results |-> [k \in 1..Len(shown_indices) |->
                        result_row(recs, cats, shown_indices[k], is_semantic(req),
                                   IF is_semantic(req) THEN shown_scores[k] ELSE 0)]]

\* lines 139-156: the rankings of a candidate list
rankings_of(recs, embs, req, cands) ==
    IF is_semantic(req)
    THEN LET sims == similarities(embs, cands, req.q)
         IN  {[indices |-> [k \in 1..Len(cands) |-> cands[p[k]]],
               scores |-> [k \in 1..Len(cands) |-> sims[p[k]]]] :
                 p \in argsort_descending(sims)}
    ELSE {[indices |-> sorted_by_name(recs, cands),
           scores |-> [k \in 1..Len(cands) |-> 0]]}

\* lines 139-156: the rankings search can compute for a request: one for an
\* alphabetical request, one per admissible order of argsort for a semantic one
rankings(recs, embs, req) == rankings_of(recs, embs, req, candidates(recs, req))

\* get_stats: by_type
type_counts(recs) ==
    [ft \in {recs[i].file_type : i \in 1..Len(recs)} |->
        Cardinality({i \in 1..Len(recs) : recs[i].file_type = ft})]

\* get_stats: by_category
category_counts(recs, cats) ==
    [cat \in SeqRange(cats) |-> Cardinality({i \in 1..Len(recs) : recs[i][cat] # <<>>})]

-----------------------------------------------------------------------------
(* Requests *)

\* the largest index the query service is started on, in records
MaxIndexRows == 2

Request(q, mammals, places, file_type, include, exclude, limit) ==
    [k \in {"q", "file_type", "include", "exclude", "limit"} \cup CategorySet |->
        CASE k = "q" -> q
          [] k = "file_type" -> file_type
          [] k = "include" -> include
          [] k = "exclude" -> exclude
          [] k = "limit" -> limit
          [] k = "marine_mammals" -> mammals
          [] k = "places" -> places
          [] OTHER -> None]

\* the request with every parameter at its default
DefaultRequest == Request(<<>>, None, None, None, None, None, 100)

Queries == {<<>>, <<" ">>, <<"d", "u", "g", "o", "n", "g">>, <<"w">>}
MammalFilters == {None, <<"D", "U", "G", "O", "N", "G">>, <<"w", "h", "a", "l", "e">>}
PlaceFilters == {None, <<"g", "u", "l", "f">>}
FileTypeFilters == {None, <<"c", "s", "v">>}
IncludePatterns == {None, <<"a", ".", "c", "s", "v">>, <<"(">>}
ExcludePatterns == {None, <<"w", "h", "a", "l", "e">>, <<"(", "a">>}
Limits == {-1, 0, 1, 2, 100}

\* requests that vary the structured filters
FilterRequests ==
    {Request(<<>>, m, pl, ft, None, None, 100) :
        m \in MammalFilters, pl \in PlaceFilters, ft \in FileTypeFilters}

\* requests that vary the patterns and the limit, in both ranking modes
PatternRequests ==
    {Request(q, None, None, None, inc, exc, lim) :
        q \in {<<>>, <<"d", "u", "g", "o", "n", "g">>}, inc \in IncludePatterns,
        exc \in ExcludePatterns, lim \in {-1, 1, 100}}

\* requests that vary the query text and the limit
RankingRequests ==
    {Request(q, m, None, None, None, None, lim) :
        q \in Queries, m \in {None, <<"D", "U", "G", "O", "N", "G">>}, lim \in Limits}

Requests == FilterRequests \cup PatternRequests \cup RankingRequests

-----------------------------------------------------------------------------
(* scan_species_mentions.py: the term matcher *)

\* SEARCH_CATEGORIES: the categories and, of each category's terms, those the
\* texts of the model mention, in configuration order
SEARCH_CATEGORIES ==
    [marine_mammals |-> <<<<"d", "u", "g", "o", "n", "g">>, <<"w", "h", "a", "l", "e">>, <<"b", "r", "y", "d", "e", "s">>, <<"b", "r", "y", "d", "e">>>>,
     sharks_rays |-> <<<<"s", "h", "a", "r", "k">>, <<"r", "a", "y">>, <<"s", "t", "i", "n", "g", "r", "a", "y">>, <<"w", "h", "a", "l", "e", " ", "s", "h", "a", "r", "k">>, <<"e", "a", "g", "l", "e", " ", "r", "a", "y">>>>,
     reptiles |-> <<<<"t", "u", "r", "t", "l", "e">>, <<"s", "e", "a", " ", "t", "u", "r", "t", "l", "e">>>>,
     fish |-> <<<<"t", "u", "n", "a">>>>,
     birds |-> <<<<"e", "a", "g", "l", "e">>, <<"t", "e", "r", "n">>>>,
     invertebrates_habitat |-> <<<<"c", "o", "r", "a", "l">>, <<"c", "r", "a", "b">>>>,
     survey_types |-> <<<<"p", "h", "o", "t", "o", "-", "i", "d">>, <<"B", "R", "U", "V">>, <<"i", "m", "p", "a", "c", "t">>>>,
     places |-> <<<<"N", "E", "O", "M">>, <<"R", "e", "d", " ", "S", "e", "a">>, <<"r", "e", "e", "f">>>>,
     data_types |-> <<<<"G", "P", "S">>, <<"t", "r", "a", "c", "k">>>>,
     conservation |-> <<<<"M", "P", "A">>, <<"i", "m", "p", "a", "c", "t">>>>]

\* the terms of a category, as a set
Terms(cat) == SeqRange(SEARCH_CATEGORIES[cat])

\* \w of the regular expressions: letters, digits and the underscore
IsWordChar(c) ==
    \/ \E i \in 1..Len(UpperChars) : UpperChars[i] = c \/ LowerChars[i] = c
    \/ c \in {"0", "1", "2", "_"}

\* \b after the first k characters of text: exactly one of the characters on
\* the two sides is a word character (the ends of the text count as non-word)
WordBoundary(text, k) ==
    (k > 0 /\ IsWordChar(text[k])) # (k < Len(text) /\ IsWordChar(text[k + 1]))

\* a plausible slip: the pattern lacks the opening \b
pattern_search_unanchored(term, text) ==
    \E k \in 0..(Len(text) - Len(term)) :
        /\ ToLower(SubSeq(text, k + 1, k + Len(term))) = ToLower(term)
        /\ \/ WordBoundary(text, k + Len(term))
           \/ /\ k + Len(term) < Len(text)
              /\ LowerChar[text[k + Len(term) + 1]] = "s"
              /\ WordBoundary(text, k + Len(term) + 1)

\* CATEGORY_PATTERNS[category][term].search(text): the pattern
\* \b + re.escape(term) + s?\b compiled with re.IGNORECASE
pattern_search(term, text) ==
    \E k \in 0..(Len(text) - Len(term)) :
        /\ WordBoundary(text, k)
        /\ ToLower(SubSeq(text, k + 1, k + Len(term))) = ToLower(term)
        /\ \/ WordBoundary(text, k + Len(term))
           \/ /\ k + Len(term) < Len(text)
              /\ LowerChar[text[k + Len(term) + 1]] = "s"
              /\ WordBoundary(text, k + Len(term) + 1)

\* {cat: set() for cat in SEARCH_CATEGORIES}
NoMatches == [cat \in DOMAIN SEARCH_CATEGORIES |-> {}]

\* find_matches_in_text(text)
find_matches_in_text(text) ==
    IF text = None \/ text = <<>>
    THEN NoMatches
    ELSE [cat \in DOMAIN SEARCH_CATEGORIES |->
             {term \in Terms(cat) : pattern_search(term, text)}]

-----------------------------------------------------------------------------
(* Inputs of find_matches_in_text *)

\* one character in upper case
UpperChar ==
    [c \in CharSet |->
        IF \E i \in 1..Len(LowerChars) : LowerChars[i] = c
        THEN UpperChars[CHOOSE i \in 1..Len(LowerChars) : LowerChars[i] = c]
        ELSE c]

ToUpper(s) == [i \in 1..Len(s) |-> UpperChar[s[i]]]

AllTerms == UNION {Terms(cat) : cat \in DOMAIN SEARCH_CATEGORIES}

\* texts made of one term: the term and its plural in the configured, upper
\* and lower case, and the term inside longer tokens and between delimiters
TermTexts(t) ==
    {t, t \o <<"s">>, ToUpper(t), ToUpper(t) \o <<"S">>, ToLower(t), ToLower(t) \o <<"S">>,
     <<"x">> \o t, t \o <<"x">>, t \o <<"s", "s">>, t \o <<"_">>, <<"0">> \o t, t \o <<"1">>,
     <<"(">> \o t \o <<".">>, <<"a", " ">> \o t \o <<"s", " ", "b">>, <<"a", "-">> \o t, t \o <<"s", "-", "b">>}

MatchTexts ==
    UNION {TermTexts(t) : t \in AllTerms}
    \cup {None, <<>>, <<" ">>, <<"a", "r", "r", "a", "y">>, <<"s", "t", "i", "n", "g", "r", "a", "y">>, <<"S", "t", "i", "n", "g", "r", "a", "y", "s">>, <<"s", "t", "i", "n", "g", " ", "r", "a", "y">>,
          <<"w", "h", "a", "l", "e", " ", " ", "s", "h", "a", "r", "k">>, <<"w", "h", "a", "l", "e", "s", "h", "a", "r", "k">>, <<"w", "h", "a", "l", "e", "-", "s", "h", "a", "r", "k">>, <<"w", "h", "a", "l", "e", "s", " ", "s", "h", "a", "r", "k">>,
          <<"W", "h", "a", "l", "e", " ", "S", "h", "a", "r", "k", "s">>, <<"e", "a", "g", "l", "e", " ", "r", "a", "y", "s">>, <<"s", "e", "a", "_", "t", "u", "r", "t", "l", "e">>, <<"R", "e", "d", " ", " ", "S", "e", "a">>, <<"R", "E", "D", " ", "S", "E", "A", "S">>,
          <<"p", "h", "o", "t", "o", " ", "i", "d">>, <<"p", "h", "o", "t", "o", "i", "d">>, <<"x", "-", "r", "a", "y">>, <<"r", "a", "y", "s", ",", "t", "e", "r", "n", "s">>}

MatchInit ==
    /\ m_pc = "call"
    /\ m_text \in MatchTexts
    /\ m_result = NoMatches

MatcherOff ==
    /\ m_pc = "off"
    /\ m_text = <<>>
    /\ m_result = NoMatches

\* find_matches_in_text runs on its argument
FindMatches ==
    /\ m_pc = "call"
    /\ m_result' = find_matches_in_text(m_text)
    /\ m_pc' = "return"
    /\ UNCHANGED m_text

-----------------------------------------------------------------------------
(* scan_species_mentions.py: the walker, the readers and the scan loop *)

ROOT_PATH == <<"E", ":", "\\">>

SKIP_EXTENSIONS ==
    {<<".", "j", "p", "g">>, <<".", "j", "p", "e", "g">>, <<".", "p", "n", "g">>, <<".", "g", "i", "f">>, <<".", "t", "i", "f">>, <<".", "t", "i", "f", "f">>, <<".", "c", "r", "2">>, <<".", "n", "e", "f">>, <<".", "b", "m", "p">>, <<".", "r", "a", "w">>,
     <<".", "a", "v", "i">>, <<".", "m", "p", "4">>, <<".", "m", "o", "v">>, <<".", "w", "a", "v">>, <<".", "m", "p", "3">>, <<".", "w", "m", "v">>,
     <<".", "s", "h", "x">>, <<".", "p", "r", "j">>, <<".", "c", "p", "g">>, <<".", "s", "b", "n">>, <<".", "s", "b", "x">>, <<".", "s", "h", "p", ".", "x", "m", "l">>, <<".", "q", "m", "d">>, <<".", "d", "b", "f">>,
     <<".", "g", "d", "b", "t", "a", "b", "l", "e">>, <<".", "g", "d", "b", "t", "a", "b", "l", "x">>, <<".", "g", "d", "b", "i", "n", "d", "e", "x", "e", "s">>, <<".", "a", "t", "x">>, <<".", "f", "r", "e", "e", "l", "i", "s", "t">>, <<".", "h", "o", "r", "i", "z", "o", "n">>, <<".", "s", "p", "x">>,
     <<".", "l", "o", "c", "k">>, <<".", "x", "m", "l">>, <<".", "h", "t", "m", "l">>, <<".", "h", "t", "m">>, <<".", "p", "p", "t", "x">>, <<".", "d", "o", "c", "x">>}

MAX_FILE_SIZE_MB == 500

\* the scan target types
EXCEL == <<"e", "x", "c", "e", "l">>
CSV == <<"c", "s", "v">>
PDF == <<"p", "d", "f">>
GPX == <<"g", "p", "x">>

\* the position of the last '.' of a name, 0 when it has none (str.rfind)
LastDot(name) ==
    IF \E i \in 1..Len(name) : name[i] = "."
    THEN CHOOSE i \in 1..Len(name) :
            name[i] = "." /\ \A j \in (i + 1)..Len(name) : name[j] # "."
    ELSE 0

\* Path(...).suffix of a path whose last component is name: the part from the
\* last '.', when that '.' is neither the first nor the last character
path_suffix(name) ==
    IF LastDot(name) > 1 /\ LastDot(name) < Len(name)
    THEN SubSeq(name, LastDot(name), Len(name))
    ELSE <<>>

\* os.path.splitext(filename)[1]: the part from the last '.', unless only
\* dots come before it
splitext_ext(filename) ==
    IF \E j \in 1..(LastDot(filename) - 1) : filename[j] # "."
    THEN SubSeq(filename, LastDot(filename), Len(filename))
    ELSE <<>>

\* os.path.join(dirpath, filename)
path_join(dirpath, filename) ==
    IF dirpath[Len(dirpath)] = "\\" THEN dirpath \o filename
    ELSE dirpath \o <<"\\">> \o filename

\* current_path.suffix.lower() == '.gdb'
is_gdb(name) == ToLower(path_suffix(name)) = <<".", "g", "d", "b">>

\* lines 410-420: the type of a file, from its lower-cased extension
file_type_of(ext) ==
    CASE ext = <<".", "s", "h", "p">> -> SHAPEFILE
      [] ext \in {<<".", "x", "l", "s", "x">>, <<".", "x", "l", "s">>} -> EXCEL
      [] ext = <<".", "c", "s", "v">> -> CSV
      [] ext = <<".", "p", "d", "f">> -> PDF
      [] ext = <<".", "g", "p", "x">> -> GPX
      [] OTHER -> None

\* a directory entry of a file: its name and os.path.getsize of it in bytes,
\* -1 when getsize raises
FileEntry(name, size) == [name |-> name, size |-> size]

\* a plausible slip: the size of the file is not looked at
is_scan_target_any_size(f) ==
    /\ ToLower(splitext_ext(f.name)) \notin SKIP_EXTENSIONS
    /\ file_type_of(ToLower(splitext_ext(f.name))) # None

\* lines 393-422: whether the file becomes a scan target
is_scan_target(f) ==
    /\ ToLower(splitext_ext(f.name)) \notin SKIP_EXTENSIONS
    /\ f.size # -1
    /\ ~(f.size > MAX_FILE_SIZE_MB * 1024 * 1024)
    /\ file_type_of(ToLower(splitext_ext(f.name))) # None

\* lines 393-427: the scan targets among the files of one directory
file_targets(dirpath, files) ==
    LET kept == SelectSeq(files, is_scan_target)
    IN  [i \in 1..Len(kept) |->
            [path |-> path_join(dirpath, kept[i].name),
             type |-> file_type_of(ToLower(splitext_ext(kept[i].name))),
             name |-> kept[i].name]]

\* a directory: its name, its sub-directories and its files, as os.walk
\* lists them
Dir(name, dirs, files) == [name |-> name, dirs |-> dirs, files |-> files]

\* any(p.suffix.lower() == '.gdb' for p in current_path.parents)
is_inside_gdb(parents) == \E i \in 1..Len(parents) : is_gdb(parents[i])

\* the loop over os.walk from one directory down, top-down: the targets of
\* the directory, then those of its sub-directories in order.  os.walk yields
\* each directory once, so gdb_folders_seen never holds the current path.
RECURSIVE walk(_, _, _)
walk(dirpath, parents, dir) ==
    LET below(k) == walk(path_join(dirpath, dir.dirs[k].name),
                         Append(parents, dir.name), dir.dirs[k])
        Sub[k \in 0..Len(dir.dirs)] == IF k = 0 THEN <<>> ELSE Sub[k - 1] \o below(k)
    IN  IF is_gdb(dir.name)
        THEN <<[path |-> dirpath, type |-> GEODATABASE, name |-> dir.name]>>
        ELSE (IF is_inside_gdb(parents) THEN <<>> ELSE file_targets(dirpath, dir.files))
             \o Sub[Len(dir.dirs)]

\* get_files_to_scan(root_path) on the tree under root_path
get_files_to_scan(root_path, tree) == walk(root_path, <<>>, tree)

\* what happens inside a reader: it extracts content, or pd.read_csv raises
\* under every encoding ("read"), or something else raises ("other")
ReadOutcome(failure, content) == [failure |-> failure, content |-> content]

\* f"ERROR: {e}"
error_marker(outcome) == <<"E", "R", "R", "O", "R", ":", " ">> \o outcome.content

\* read_csv_file(csv_path)
read_csv_file(outcome) ==
    CASE outcome.failure = "read" -> None
      [] outcome.failure = "other" -> error_marker(outcome)
      [] OTHER -> outcome.content

\* read_shapefile, read_geodatabase, read_excel, read_pdf, read_gpx
read_other(outcome) ==
    IF outcome.failure # "no" THEN error_marker(outcome) ELSE outcome.content

\* lines 437-451: the text scan_file gets from the reader of the file type
read_file(file_type, outcome) ==
    IF file_type = CSV THEN read_csv_file(outcome)
    ELSE IF file_type \in {SHAPEFILE, GEODATABASE, EXCEL, PDF, GPX} THEN read_other(outcome)
    ELSE None

\* line 454: text and isinstance(text, str) and text.startswith("ERROR:")
is_error_text(text) ==
    text # None /\ text # <<>> /\ StartsWith(text, <<"E", "R", "R", "O", "R", ":">>)

\* a plausible slip: the error record is returned without the category columns
error_record_without_categories(file_info, text) ==
    [file_path |-> file_info.path, file_name |-> file_info.name,
     file_type |-> file_info.type, status |-> ERROR_STATUS, error |-> text]

\* lines 455-465
error_record(file_info, text) ==
    [k \in {"file_path", "file_name", "file_type", "status", "error"}
           \cup DOMAIN SEARCH_CATEGORIES |->
        CASE k = "file_path" -> file_info.path
          [] k = "file_name" -> file_info.name
          [] k = "file_type" -> file_info.type
          [] k = "status" -> ERROR_STATUS
          [] k = "error" -> text
          [] OTHER -> <<>>]

\* a plausible slip: the matches in the path are left out
combined_matches_content_only(file_info, text) ==
    [cat \in DOMAIN SEARCH_CATEGORIES |->
        (IF text # None /\ text # <<>> THEN find_matches_in_text(text) ELSE NoMatches)[cat]]

\* lines 468-481: matches_from_content[category] | matches_from_path[category]
combined_matches(file_info, text) ==
    [cat \in DOMAIN SEARCH_CATEGORIES |->
        (IF text # None /\ text # <<>> THEN find_matches_in_text(text) ELSE NoMatches)[cat]
        \cup find_matches_in_text(file_info.path)[cat]]

\* lines 472-484
success_record(file_info, text) ==
    [k \in {"file_path", "file_name", "file_type", "status", "error"}
           \cup DOMAIN SEARCH_CATEGORIES |->
        CASE k = "file_path" -> file_info.path
          [] k = "file_name" -> file_info.name
          [] k = "file_type" -> file_info.type
          [] k = "status" -> SUCCESS
          [] k = "error" -> <<>>
          [] OTHER -> Join(SortStrings(combined_matches(file_info, text)[k]), <<",", " ">>)]

\* a plausible slip: any reader return that is not text counts as an error
scan_record_none_is_error(file_info, text) ==
    IF text = None \/ is_error_text(text) THEN error_record(file_info, text)
    ELSE success_record(file_info, text)

\* scan_file(file_info), from the reader's return value on
scan_record(file_info, text) ==
    IF is_error_text(text) THEN error_record(file_info, text)
    ELSE success_record(file_info, text)

\* scan_file(file_info), the reader behaving as outcome says
scan_file(file_info, outcome) ==
    scan_record(file_info, read_file(file_info.type, outcome))

-----------------------------------------------------------------------------
(* Inputs of scan_species_mentions.main: directory trees and reader outcomes *)

\* the most files the root directory of a tree holds
MaxDirFiles == 1

\* files of the root directory: two plain targets, a skipped image, an
\* unrecognized extension, a file above the size ceiling, a file of exactly
\* the ceiling, a file whose size cannot be read, a name that is all extension
RootFiles ==
    {FileEntry(<<"a", ".", "c", "s", "v">>, 1), FileEntry(<<"t", ".", "g", "p", "x">>, 1), FileEntry(<<"p", ".", "j", "p", "g">>, 1),
     FileEntry(<<"n", ".", "t", "x", "t">>, 1), FileEntry(<<"b", "i", "g", ".", "c", "s", "v">>, 524288001),
     FileEntry(<<"m", "a", "x", ".", "p", "d", "f">>, 524288000), FileEntry(<<"u", ".", "x", "l", "s">>, -1), FileEntry(<<".", "c", "s", "v">>, 1)}

\* a geodatabase directory holding a file and a nested geodatabase directory
GdbDir ==
    Dir(<<"A", ".", "G", "D", "B">>, <<Dir(<<"i", "n", ".", "g", "d", "b">>, <<>>, <<FileEntry(<<"x", ".", "g", "d", "b", "t", "a", "b", "l", "e">>, 1)>>)>>,
        <<FileEntry(<<"a", ".", "c", "s", "v">>, 1)>>)

\* a directory whose whole name is .gdb
DotGdbDir == Dir(<<".", "g", "d", "b">>, <<>>, <<FileEntry(<<"c", ".", "c", "s", "v">>, 1)>>)

\* a plain directory over a geodatabase directory
PlainDir ==
    Dir(<<"D", "u", "g", "o", "n", "g", "_", "I", "R">>, <<Dir(<<"w", ".", "g", "d", "b">>, <<>>, <<>>)>>,
        <<FileEntry(<<"B", ".", "C", "S", "V">>, 1), FileEntry(<<"a", ".", "s", "h", "p", ".", "x", "m", "l">>, 1)>>)

\* a directory and a file whose names mention terms
ReefDir == Dir(<<"r", "e", "e", "f">>, <<>>, <<FileEntry(<<"w", "h", "a", "l", "e", " ", "s", "h", "a", "r", "k", "s", ".", "s", "h", "p">>, 1)>>)

ScanDirs == {<<>>, <<GdbDir>>, <<DotGdbDir>>, <<PlainDir>>, <<ReefDir, GdbDir>>}

\* the trees under ROOT_PATH
ScanTrees ==
    {Dir(<<>>, dirs, files) : dirs \in ScanDirs, files \in SeqsUpTo(RootFiles, MaxDirFiles)}

\* what a reader can meet: content with terms, no content, content that
\* begins like an error marker, and the two kinds of failure
ReadOutcomes ==
    {ReadOutcome("no", <<"D", "u", "g", "o", "n", "g", " ", "r", "e", "e", "f", "s", " ", "2">>), ReadOutcome("no", <<>>),
     ReadOutcome("no", <<"E", "R", "R", "O", "R", ":", " ", "r", "e", "e", "f">>), ReadOutcome("read", <<"x">>),
     ReadOutcome("other", <<"x">>)}

ScanInit ==
    /\ sc_pc = "start"
    /\ sc_tree \in ScanTrees
    /\ sc_files = <<>>
    /\ sc_read = <<>>
    /\ sc_results = <<>>
    /\ sc_csv = Absent

ScanOff ==
    /\ sc_pc = "off"
    /\ sc_tree = Dir(<<>>, <<>>, <<>>)
    /\ sc_files = <<>>
    /\ sc_read = <<>>
    /\ sc_results = <<>>
    /\ sc_csv = Absent

ScannerOff == MatcherOff /\ ScanOff

\* main, line 499: files = get_files_to_scan(ROOT_PATH)
ScanWalk ==
    /\ sc_pc = "start"
    /\ sc_files' = get_files_to_scan(ROOT_PATH, sc_tree)
    /\ sc_pc' = "scanning"
    /\ UNCHANGED <<sc_tree, sc_read, sc_results, sc_csv>>

\* main, lines 516-518: one turn of the scan loop
ScanFile ==
    /\ sc_pc = "scanning"
    /\ Len(sc_results) < Len(sc_files)
    /\ \E outcome \in ReadOutcomes :
        LET file_info == sc_files[Len(sc_results) + 1]
        IN  /\ sc_read' = Append(sc_read,
                                 [outcome |-> outcome,
                                  text |-> read_file(file_info.type, outcome)])
            /\ sc_results' = Append(sc_results, scan_file(file_info, outcome))
    /\ UNCHANGED <<sc_pc, sc_tree, sc_files, sc_csv>>

\* main, lines 527-535: the loop is over and the results are written
ScanWriteCsv ==
    /\ sc_pc = "scanning"
    /\ Len(sc_results) = Len(sc_files)
    /\ sc_csv' = File(sc_results)
    /\ sc_pc' = "done"
    /\ UNCHANGED <<sc_tree, sc_files, sc_read, sc_results>>

-----------------------------------------------------------------------------
(* search_service as a state machine *)

NoResponse == [none |-> TRUE]

HandlersIdle ==
    /\ h_handler = "none"
    /\ h_request = DefaultRequest
    /\ h_ranked = <<>>
    /\ h_response = NoResponse

ServiceOff ==
    /\ svc_pc = "off"
    /\ records = <<>>
    /\ categories = <<>>
    /\ filters = NoIndexJson.filters
    /\ embeddings = <<>>
    /\ HandlersIdle

\* the service process is started, nothing loaded yet
ServiceDown ==
    /\ svc_pc = "down"
    /\ records = <<>>
    /\ categories = <<>>
    /\ filters = NoIndexJson.filters
    /\ embeddings = <<>>
    /\ HandlersIdle

\* lines 33-37: search_index.json is opened and read; open raises when the
\* file is absent, and the module is not imported
LoadIndex ==
    /\ svc_pc = "down"
    /\ IF file_index.exists
       THEN /\ records' = file_index.content.records
            /\ categories' = file_index.content.categories
            /\ filters' = file_index.content.filters
            /\ svc_pc' = "index_loaded"
       ELSE /\ svc_pc' = "failed"
            /\ UNCHANGED <<records, categories, filters>>
    /\ UNCHANGED <<embeddings, hvars>>

\* a plausible slip: a missing search_embeddings.npy is taken for an empty
\* matrix and the service starts
LoadEmbeddingsMissingOk ==
    /\ svc_pc = "index_loaded"
    /\ embeddings' = (IF file_embeddings.exists THEN file_embeddings.content ELSE <<>>)
    /\ svc_pc' = "serving"
    /\ UNCHANGED <<records, categories, filters, hvars>>

\* line 42: search_embeddings.npy is read; np.load raises when it is absent
LoadEmbeddings ==
    /\ svc_pc = "index_loaded"
    /\ IF file_embeddings.exists
       THEN /\ embeddings' = file_embeddings.content
            /\ svc_pc' = "serving"
       ELSE /\ svc_pc' = "failed"
            /\ UNCHANGED embeddings
    /\ UNCHANGED <<records, categories, filters, hvars>>

\* GET /api/search
Search(reqs) ==
    /\ svc_pc = "serving"
    /\ \E req \in reqs :
        /\ h_handler' = "search"
        /\ h_request' = req
        /\ IF include_error(req) \/ exclude_error(req)
           THEN /\ h_response' = error_response(req)
                /\ h_ranked' = <<>>
           ELSE \E ranking \in rankings(records, embeddings, req) :
                /\ h_ranked' = ranking.indices
                /\ h_response' =
                      search_response(records, categories, req, ranking.indices,
                                      ranking.scores)
    /\ UNCHANGED svars

\* GET /api/filters
GetFilters ==
    /\ svc_pc = "serving"
    /\ h_handler' = "filters"
    /\ h_request' = DefaultRequest
    /\ h_ranked' = <<>>
    /\ h_response' = [categories |-> categories, options |-> filters]
    /\ UNCHANGED svars

\* GET /api/stats
GetStats ==
    /\ svc_pc = "serving"
    /\ h_handler' = "stats"
    /\ h_request' = DefaultRequest
    /\ h_ranked' = <<>>
    /\ h_response' = [total_files |-> Len(records),
                      by_type |-> type_counts(records),
                      by_category |-> category_counts(records, categories)]
    /\ UNCHANGED svars

\* the requests made of a service that has just started
StartupRequests == {DefaultRequest, [DefaultRequest EXCEPT !.q = <<"d", "u", "g", "o", "n", "g">>]}

\* the scan artifacts the served indexes are built from
IndexCsvs == SeqsUpTo({RowA, RowB, RowC, RowE}, MaxIndexRows)

\* the service has started on the artifacts of a completed build over one of
\* the scan artifacts csvs
ServiceStartedOn(csvs) ==
    /\ svc_pc = "serving"
    /\ \E csv \in csvs :
        /\ records = index_records(csv)
        /\ filters = index_filters(csv)
        /\ embeddings = EncodeAll(record_texts(index_records(csv)))
    /\ categories = CATEGORIES
    /\ HandlersIdle

ServiceStarted == ServiceStartedOn(IndexCsvs)

\* the requests a client makes from the options GET /api/filters published:
\* one category set to one of its options, every other filter unset
OptionRequests(options) ==
    UNION {{[Request(q, None, None, None, None, None, lim) EXCEPT ![cat] = v] :
                q \in {<<>>, <<"d", "u", "g", "o", "n", "g">>}, lim \in {1, 100},
                v \in SeqRange(options[cat])} :
           cat \in CategorySet}

-----------------------------------------------------------------------------
(* search_service under concurrent requests: each handler runs in a worker *)
(* thread, and the steps of two calls interleave                          *)

\* the most requests in flight at once
MaxClients == 2

Clients == 1..MaxClients

\* a client that has made no request
IdleCall ==
    [pc |-> "idle", handler |-> "none", req |-> DefaultRequest,
     candidate_indices |-> <<>>, ranked_indices |-> <<>>, ranked_scores |-> <<>>,
     response |-> NoResponse]

CallsIdle == calls = [c \in Clients |-> IdleCall]

\* the requests the concurrent clients make
ConcurrentRequests ==
    {DefaultRequest,
     [DefaultRequest EXCEPT !.q = <<"d", "u", "g", "o", "n", "g">>],
     [DefaultRequest EXCEPT !.q = <<"w">>, !.limit = 1],
     [DefaultRequest EXCEPT !.marine_mammals = <<"w", "h", "a", "l", "e">>],
     [DefaultRequest EXCEPT !.include = <<"(">>]}

\* the scan artifacts the concurrently served indexes are built from
ConcurrentCsvs == {<<RowA, RowB>>, <<RowB, RowC>>}

\* search is entered with its parameters
SearchBegin(c) ==
    /\ svc_pc = "serving"
    /\ calls[c].pc = "idle"
    /\ \E req \in ConcurrentRequests :
        calls' = [calls EXCEPT ![c] = [IdleCall EXCEPT !.pc = "filter",
                                                       !.handler = "search",
                                                       !.req = req]]
    /\ UNCHANGED svars

\* lines 96-136: the filters narrow candidate_indices, reading records
SearchFilter(c) ==
    /\ calls[c].pc = "filter"
    /\ IF include_error(calls[c].req) \/ exclude_error(calls[c].req)
       THEN calls' = [calls EXCEPT ![c].pc = "returned",
                                   ![c].response = error_response(calls[c].req)]
       ELSE calls' = [calls EXCEPT ![c].pc = "rank",
                                   ![c].candidate_indices = candidates(records, calls[c].req)]
    /\ UNCHANGED svars

\* a plausible slip: the alphabetical branch sorts the shared records list in
\* place instead of sorting the candidates
SearchRankSortsRecords(c) ==
    /\ calls[c].pc = "rank"
    /\ LET order == sorted_by_name(records, [i \in 1..Len(records) |-> i])
       IN  /\ records' = [k \in 1..Len(records) |-> records[order[k]]]
           /\ calls' = [calls EXCEPT ![c].pc = "build",
                                     ![c].ranked_indices = calls[c].candidate_indices,
                                     ![c].ranked_scores =
                                         [k \in 1..Len(calls[c].candidate_indices) |-> 0]]
    /\ UNCHANGED <<categories, filters, embeddings, svc_pc>>

\* lines 138-156: the candidates are ranked, reading embeddings and records
SearchRank(c) ==
    /\ calls[c].pc = "rank"
    /\ \E ranking \in rankings_of(records, embeddings, calls[c].req,
                                  calls[c].candidate_indices) :
        calls' = [calls EXCEPT ![c].pc = "build",
                               ![c].ranked_indices = ranking.indices,
                               ![c].ranked_scores = ranking.scores]
    /\ UNCHANGED svars

\* lines 158-182: the results are built, reading records and categories
SearchBuild(c) ==
    /\ calls[c].pc = "build"
    /\ calls' = [calls EXCEPT ![c].pc = "returned",
                              ![c].response =
                                  search_response(records, categories, calls[c].req,
                                                  calls[c].ranked_indices,
                                                  calls[c].ranked_scores)]
    /\ UNCHANGED svars

\* get_filters, lines 52-58
FiltersCall(c) ==
    /\ svc_pc = "serving"
    /\ calls[c].pc = "idle"
    /\ calls' = [calls EXCEPT ![c] = [IdleCall EXCEPT !.pc = "returned",
                                                       !.handler = "filters",
                                                       !.response =
                                                           [categories |-> categories,
                                                            options |-> filters]]]
    /\ UNCHANGED svars

\* get_stats, lines 185-205
StatsCall(c) ==
    /\ svc_pc = "serving"
    /\ calls[c].pc = "idle"
    /\ calls' = [calls EXCEPT ![c] = [IdleCall EXCEPT !.pc = "returned",
                                                       !.handler = "stats",
                                                       !.response =
                                                           [total_files |-> Len(records),
                                                            by_type |-> type_counts(records),
                                                            by_category |->
                                                                category_counts(records, categories)]]]
    /\ UNCHANGED svars

-----------------------------------------------------------------------------
(* Specifications *)

\* prepare_index.main alone
InitPrepareOnly == InitPrepare /\ BuildOff /\ ServiceOff /\ ScannerOff /\ CallsIdle

NextPrepareOnly ==
    \/ PrepareLoad /\ UNCHANGED <<bvars, svars, hvars, xvars>>
    \/ PrepareEncode /\ UNCHANGED <<bvars, svars, hvars, xvars>>
    \/ PrepareSaveEmbeddings /\ UNCHANGED <<bvars, svars, hvars, xvars>>
    \/ PrepareSaveRecords /\ UNCHANGED <<bvars, svars, hvars, xvars>>
    \/ PrepareSaveFilters /\ UNCHANGED <<bvars, svars, hvars, xvars>>
    \/ PrepareSaveTexts /\ UNCHANGED <<bvars, svars, hvars, xvars>>

SpecPrepare == InitPrepareOnly /\ [][NextPrepareOnly]_vars

\* the two index builders, each run on its own
InitIndexBuilds ==
    \/ InitPrepare /\ BuildOff /\ ServiceOff /\ ScannerOff /\ CallsIdle
    \/ BuildInit /\ PrepareOff /\ ServiceOff /\ ScannerOff /\ CallsIdle

NextIndexBuilds ==
    \/ PrepareLoad /\ UNCHANGED <<bvars, svars, hvars, xvars>>
    \/ PrepareEncode /\ UNCHANGED <<bvars, svars, hvars, xvars>>
    \/ PrepareSaveEmbeddings /\ UNCHANGED <<bvars, svars, hvars, xvars>>
    \/ PrepareSaveRecords /\ UNCHANGED <<bvars, svars, hvars, xvars>>
    \/ PrepareSaveFilters /\ UNCHANGED <<bvars, svars, hvars, xvars>>
    \/ PrepareSaveTexts /\ UNCHANGED <<bvars, svars, hvars, xvars>>
    \/ BuildRecords /\ UNCHANGED <<pvars, svars, hvars, xvars>>
    \/ BuildSaveIndex /\ UNCHANGED <<pvars, svars, hvars, xvars>>
    \/ BuildEncode /\ UNCHANGED <<pvars, svars, hvars, xvars>>
    \/ BuildSaveEmbeddings /\ UNCHANGED <<pvars, svars, hvars, xvars>>
    \/ BuildStop /\ UNCHANGED <<pvars, svars, hvars, xvars>>
    \/ BuildAgain /\ UNCHANGED <<pvars, svars, hvars, xvars>>

SpecIndexBuilds == InitIndexBuilds /\ [][NextIndexBuilds]_vars

\* build_index.main rebuilding the index while the query service starts
InitRebuild == BuildInit /\ PrepareOff /\ ServiceDown /\ ScannerOff /\ CallsIdle

NextRebuild ==
    \/ BuildRecords /\ UNCHANGED <<pvars, svars, hvars, xvars>>
    \/ BuildSaveIndex /\ UNCHANGED <<pvars, svars, hvars, xvars>>
    \/ BuildEncode /\ UNCHANGED <<pvars, svars, hvars, xvars>>
    \/ BuildSaveEmbeddings /\ UNCHANGED <<pvars, svars, hvars, xvars>>
    \/ BuildStop /\ UNCHANGED <<pvars, svars, hvars, xvars>>
    \/ BuildAgain /\ UNCHANGED <<pvars, svars, hvars, xvars>>
    \/ LoadIndex /\ UNCHANGED <<pvars, bvars, xvars>>
    \/ LoadEmbeddings /\ UNCHANGED <<pvars, bvars, xvars>>

SpecRebuild == InitRebuild /\ [][NextRebuild]_vars

\* the query service serving requests on a loaded index
InitSearch == PrepareOff /\ BuildOff /\ ServiceStarted /\ ScannerOff /\ CallsIdle

NextSearch ==
    \/ Search(Requests) /\ UNCHANGED <<pvars, bvars, xvars>>
    \/ GetFilters /\ UNCHANGED <<pvars, bvars, xvars>>
    \/ GetStats /\ UNCHANGED <<pvars, bvars, xvars>>

SpecSearch == InitSearch /\ [][NextSearch]_vars

\* find_matches_in_text called on a text
InitMatch == PrepareOff /\ BuildOff /\ ServiceOff /\ MatchInit /\ ScanOff /\ CallsIdle

NextMatch == FindMatches /\ UNCHANGED <<pvars, bvars, svars, hvars, scvars, calls>>

SpecMatch == InitMatch /\ [][NextMatch]_vars

\* scan_species_mentions.main over a directory tree
InitScan == PrepareOff /\ BuildOff /\ ServiceOff /\ MatcherOff /\ ScanInit /\ CallsIdle

NextScan ==
    \/ ScanWalk /\ UNCHANGED <<pvars, bvars, svars, hvars, mvars, calls>>
    \/ ScanFile /\ UNCHANGED <<pvars, bvars, svars, hvars, mvars, calls>>
    \/ ScanWriteCsv /\ UNCHANGED <<pvars, bvars, svars, hvars, mvars, calls>>

SpecScan == InitScan /\ [][NextScan]_vars

\* the query service started while build_index.main runs for the first time,
\* or after it has ended or stopped, and then serving requests
InitStartup == BuildInit /\ PrepareOff /\ ServiceDown /\ ScannerOff /\ CallsIdle

NextStartup ==
    \/ BuildRecords /\ UNCHANGED <<pvars, svars, hvars, xvars>>
    \/ BuildSaveIndex /\ UNCHANGED <<pvars, svars, hvars, xvars>>
    \/ BuildEncode /\ UNCHANGED <<pvars, svars, hvars, xvars>>
    \/ BuildSaveEmbeddings /\ UNCHANGED <<pvars, svars, hvars, xvars>>
    \/ BuildStop /\ UNCHANGED <<pvars, svars, hvars, xvars>>
    \/ LoadIndex /\ UNCHANGED <<pvars, bvars, xvars>>
    \/ LoadEmbeddings /\ UNCHANGED <<pvars, bvars, xvars>>
    \/ Search(StartupRequests) /\ UNCHANGED <<pvars, bvars, xvars>>
    \/ GetFilters /\ UNCHANGED <<pvars, bvars, xvars>>
    \/ GetStats /\ UNCHANGED <<pvars, bvars, xvars>>

SpecStartup == InitStartup /\ [][NextStartup]_vars

\* the query service serving requests that run concurrently
InitConcurrent ==
    PrepareOff /\ BuildOff /\ ServiceStartedOn(ConcurrentCsvs) /\ ScannerOff /\ CallsIdle

NextConcurrent ==
    \/ \E c \in Clients : SearchBegin(c) /\ UNCHANGED <<pvars, bvars, hvars, mvars, scvars>>
    \/ \E c \in Clients : SearchFilter(c) /\ UNCHANGED <<pvars, bvars, hvars, mvars, scvars>>
    \/ \E c \in Clients : SearchRank(c) /\ UNCHANGED <<pvars, bvars, hvars, mvars, scvars>>
    \/ \E c \in Clients : SearchBuild(c) /\ UNCHANGED <<pvars, bvars, hvars, mvars, scvars>>
    \/ \E c \in Clients : FiltersCall(c) /\ UNCHANGED <<pvars, bvars, hvars, mvars, scvars>>
    \/ \E c \in Clients : StatsCall(c) /\ UNCHANGED <<pvars, bvars, hvars, mvars, scvars>>

SpecConcurrent == InitConcurrent /\ [][NextConcurrent]_vars

\* the query service, started on a completed build, asked for each published
\* filter option
InitOptions == PrepareOff /\ BuildOff /\ ServiceStarted /\ ScannerOff /\ CallsIdle

NextOptions ==
    \/ GetFilters /\ UNCHANGED <<pvars, bvars, xvars>>
    \/ Search(OptionRequests(filters)) /\ UNCHANGED <<pvars, bvars, xvars>>

SpecOptions == InitOptions /\ [][NextOptions]_vars

-----------------------------------------------------------------------------
(* C1, C2: the row alignment of records and embedding matrix *)

\* row i of the matrix is the embedding of the searchable text of record i
Aligned(recs, embs) ==
    /\ Len(recs) = Len(embs)
    /\ \A i \in 1..Len(recs) : embs[i] = Embed(recs[i].searchable_text)

\* C1 as claimed: a query service that has loaded the two artifacts, at any
\* point of a rebuild, holds a records list and an embedding matrix of the same
\* number of rows where row i is the embedding of record i.
C1_ReaderSeesAlignedIndex ==
    svc_pc = "serving" => Aligned(records, embeddings)

\* C2: after a build that ran to completion, build_index.main's or
\* prepare_index.main's, the persisted records and the persisted embedding
\* matrix have the same number of rows and row i is the embedding of the
\* searchable text of record i.
C2_CompletedBuildAligned ==
    /\ b_pc = "done" =>
          /\ file_index.exists /\ file_embeddings.exists
          /\ Aligned(file_index.content.records, file_embeddings.content)
          /\ file_index.content.records = index_records(b_csv)
    /\ p_pc = "done" =>
          /\ p_file_records.exists /\ p_file_emb.exists
          /\ Len(p_file_records.content) = Len(p_file_emb.content)
          /\ \A i \in 1..Len(p_file_records.content) :
                p_file_emb.content[i] =
                    Embed(build_searchable_text(p_file_records.content[i]))

\* C2 witness: a second run of build_index.main has completed over the files
\* of an earlier run, with two records whose embeddings differ.
C2_Witness ==
    /\ b_pc = "done"
    /\ b_builds = 2
    /\ Len(file_index.content.records) = 2
    /\ file_embeddings.content[1] # file_embeddings.content[2]

-----------------------------------------------------------------------------
(* C3, C5-C10: the search handler *)

\* the last request was a search that returned a result list
SearchServed == h_handler = "search" /\ "results" \in DOMAIN h_response

Min(a, b) == IF a <= b THEN a ELSE b

\* C3 as claimed: for every query and every integer limit, 0 and negative
\* values included, showing equals min(limit, total_matches).
C3_ShowingIsMinLimitTotal ==
    SearchServed =>
        h_response.showing = Min(h_request.limit, h_response.total_matches)

\* the case-insensitive substring test of one category filter on one record
PassesCategory(i, cat, value) ==
    ~Truthy(value) \/ Contains(ToLower(records[i][cat]), ToLower(value))

\* C5: category filters compose as AND.  The records matched with both
\* filters are the records matched with the first alone that are also matched
\* with the second alone, and a request of category filters alone matches the
\* records whose stored values hold each filter value, ignoring case.
C5_CategoryFiltersIntersect ==
    SearchServed =>
        /\ SeqRange(h_ranked) =
              SeqRange(candidates(records, [h_request EXCEPT !.places = None]))
              \cap SeqRange(candidates(records, [h_request EXCEPT !.marine_mammals = None]))
        /\ h_request \in FilterRequests =>
              SeqRange(h_ranked) =
                  {i \in 1..Len(records) :
                      /\ PassesCategory(i, "marine_mammals", h_request.marine_mammals)
                      /\ PassesCategory(i, "places", h_request.places)
                      /\ (Truthy(h_request.file_type)
                              => records[i].file_type = h_request.file_type)}

\* C5 witness: a search with two category filters was served, a record passes
\* both, and a record that passes the first filter fails the second.
C5_Witness ==
    /\ SearchServed
    /\ h_request \in FilterRequests
    /\ Truthy(h_request.marine_mammals) /\ Truthy(h_request.places)
    /\ ~Truthy(h_request.file_type)
    /\ h_ranked # <<>>
    /\ \E i \in 1..Len(records) :
          /\ PassesCategory(i, "marine_mammals", h_request.marine_mammals)
          /\ ~PassesCategory(i, "places", h_request.places)

\* the last request was a search with a valid include and a valid exclude
IncludeExcludeServed ==
    /\ SearchServed
    /\ Truthy(h_request.include) /\ RegexValid(h_request.include)
    /\ Truthy(h_request.exclude) /\ RegexValid(h_request.exclude)

\* the records the exclude pattern of the last request matches
ExcludedRecords ==
    {i \in 1..Len(records) :
        \/ RegexSearch(h_request.exclude, records[i].searchable_text)
        \/ RegexSearch(h_request.exclude, records[i].file_path)}

\* the last request without its exclude pattern
IncludeOnly == [h_request EXCEPT !.exclude = None]

\* C6 as claimed: for any limit, the result set of search(include=X,
\* exclude=Y) is the result set of search(include=X) minus the records Y
\* matches.
C6_ResultSetIsIncludeMinusExclude ==
    IncludeExcludeServed =>
        \A r \in rankings(records, embeddings, IncludeOnly) :
            SeqRange(slice_to(h_ranked, h_request.limit)) =
                SeqRange(slice_to(r.indices, h_request.limit)) \ ExcludedRecords

\* C6 as amended: the records search(include=X, exclude=Y) matches (the ones
\* total_matches counts, before the truncation to limit) are the records
\* search(include=X) matches minus the records Y matches in their searchable
\* text or path; the returned result sets satisfy the same equation whenever
\* limit is at least the number of records search(include=X) matches.
C6_MatchedSetIsIncludeMinusExclude ==
    IncludeExcludeServed =>
        /\ SeqRange(h_ranked) =
              SeqRange(candidates(records, IncludeOnly)) \ ExcludedRecords
        /\ h_response.total_matches =
              Cardinality(SeqRange(candidates(records, IncludeOnly)) \ ExcludedRecords)
        /\ h_request.limit >= Len(candidates(records, IncludeOnly)) =>
              \A r \in rankings(records, embeddings, IncludeOnly) :
                  SeqRange(slice_to(h_ranked, h_request.limit)) =
                      SeqRange(slice_to(r.indices, h_request.limit)) \ ExcludedRecords

\* C6 witness: a search with both patterns was served, the exclude pattern
\* dropped a record the include pattern kept, and a record is left.
C6_Witness ==
    /\ IncludeExcludeServed
    /\ h_ranked # <<>>
    /\ SeqRange(candidates(records, IncludeOnly)) \cap ExcludedRecords # {}
    /\ h_request.limit >= Len(candidates(records, IncludeOnly))

\* the request carries an include or an exclude pattern that does not compile
InvalidPattern(req) ==
    \/ Truthy(req.include) /\ ~RegexValid(req.include)
    \/ Truthy(req.exclude) /\ ~RegexValid(req.exclude)

\* the responses search can give to a request on an index
SearchResponses(recs, cats, embs, req) ==
    {search_response(recs, cats, req, r.indices, r.scores) : r \in rankings(recs, embs, req)}

\* C7: an invalid pattern in include or exclude is answered by an error
\* payload with no total_matches, showing or results; no request changes the
\* records, embeddings, categories or filter tables; and a valid request is
\* answered from the index as it was loaded, whatever requests came before.
C7_InvalidPatternIsContained ==
    /\ [](h_handler = "search" =>
            (InvalidPattern(h_request) <=> DOMAIN h_response = {"error"}))
    /\ [][/\ svars' = svars
          /\ (h_handler' = "search" /\ ~InvalidPattern(h_request')) =>
                h_response' \in SearchResponses(records, categories, embeddings, h_request')]_vars

\* C7 witness: a search whose exclude pattern does not compile, with a valid
\* include pattern, was answered by the error payload on a non-empty index.
C7_Witness ==
    /\ h_handler = "search"
    /\ records # <<>>
    /\ Truthy(h_request.include) /\ RegexValid(h_request.include)
    /\ Truthy(h_request.exclude) /\ ~RegexValid(h_request.exclude)
    /\ DOMAIN h_response = {"error"}

\* the similarity of record i to the query text of the last request
ScoreOf(i) == Dot(embeddings[i], Embed(h_request.q))

\* C8 as claimed: with non-empty query text, two candidates of equal
\* similarity appear in their original index order.
C8_TiesKeepIndexOrder ==
    (SearchServed /\ is_semantic(h_request)) =>
        \A k, l \in 1..Len(h_ranked) :
            (k < l /\ ScoreOf(h_ranked[k]) = ScoreOf(h_ranked[l]))
                => h_ranked[k] < h_ranked[l]

\* the scores of the results are non-increasing and every result has one
ScoresDescend ==
    /\ \A k \in 1..Len(h_response.results) : "score" \in DOMAIN h_response.results[k]
    /\ \A k, l \in 1..Len(h_response.results) :
          k < l => h_response.results[k].score >= h_response.results[l].score

\* C9 as claimed: with non-empty query text, the scores of the returned
\* results are non-increasing in result order and every result carries a score.
C9_NonEmptyQueryScoresDescend ==
    (SearchServed /\ h_request.q # <<>>) => ScoresDescend

\* C9 as amended: with query text that is non-empty once leading and trailing
\* whitespace is stripped, the scores of the returned results are
\* non-increasing in result order, every result carries a score, and the score
\* of a result is the rounded similarity of its record.
C9_StrippedQueryScoresDescend ==
    (SearchServed /\ Strip(h_request.q) # <<>>) =>
        /\ ScoresDescend
        /\ \A k \in 1..Len(h_response.results) :
              h_response.results[k].score = round4(ScoreOf(h_ranked[k]))

\* C9 witness: a semantic search returned two results of different scores.
C9_Witness ==
    /\ SearchServed
    /\ Strip(h_request.q) # <<>>
    /\ Len(h_response.results) = 2
    /\ h_response.results[1].score > h_response.results[2].score

\* the lower-cased file name of record i
LowerName(i) == ToLower(records[i].file_name)

\* C10: with empty query text the results are the filtered candidates sorted
\* by file name ascending, ignoring case, records of equal lower-cased name
\* in index order; no result carries a score.  The order is the only one with
\* these properties, so a repeated call returns the same results in the same
\* order.
C10_AlphabeticalOrder ==
    (SearchServed /\ Strip(h_request.q) = <<>>) =>
        /\ SeqRange(h_ranked) = SeqRange(candidates(records, h_request))
        /\ Len(h_ranked) = Len(candidates(records, h_request))
        /\ \A k, l \in 1..Len(h_ranked) :
              k < l =>
                  /\ ~StrLess(LowerName(h_ranked[l]), LowerName(h_ranked[k]))
                  /\ LowerName(h_ranked[k]) = LowerName(h_ranked[l])
                        => h_ranked[k] < h_ranked[l]
        /\ \A k \in 1..Len(h_response.results) :
              /\ "score" \notin DOMAIN h_response.results[k]
              /\ h_response.results[k].file_name = records[h_ranked[k]].file_name
              /\ h_response.results[k].file_path = records[h_ranked[k]].file_path

\* C10 witness: an alphabetical search returned two records whose names differ
\* only in case.
C10_Witness ==
    /\ SearchServed
    /\ h_request.q = <<>>
    /\ Len(h_response.results) = 2
    /\ h_response.results[1].file_name # h_response.results[2].file_name
    /\ ToLower(h_response.results[1].file_name) = ToLower(h_response.results[2].file_name)

-----------------------------------------------------------------------------
(* C11: the term matcher *)

\* the tokens of a text: its maximal runs of word characters
Tokens(text) ==
    {SubSeq(text, ab[1], ab[2]) :
        ab \in {x \in (1..Len(text)) \X (1..Len(text)) :
                   /\ x[1] <= x[2]
                   /\ \A i \in x[1]..x[2] : IsWordChar(text[i])
                   /\ (x[1] = 1 \/ ~IsWordChar(text[x[1] - 1]))
                   /\ (x[2] = Len(text) \/ ~IsWordChar(text[x[2] + 1]))}}

\* the term and its plural, in lower case
TermForms(t) == {ToLower(t), ToLower(t) \o <<"s">>}

\* the term is one word: it has no blank, hyphen or other delimiter
IsPlainWord(t) == \A i \in 1..Len(t) : IsWordChar(t[i])

\* C11: for every term t of every category, find_matches_in_text reports t
\* for the texts "t" and "ts" in any letter case; a one-word term is reported
\* exactly when the term or its plural is a whole token of the text, so not
\* when it occurs only inside a longer token; and any term, multi-word terms
\* included, is reported only when the text holds the exact phrase
\* contiguously.
C11_TermsMatchAsWholeTokens ==
    m_pc = "return" =>
        \A cat \in DOMAIN SEARCH_CATEGORIES : \A t \in Terms(cat) :
            /\ (m_text # None /\ ToLower(m_text) \in TermForms(t)) => t \in m_result[cat]
            /\ IsPlainWord(t) =>
                  (t \in m_result[cat] <=>
                      (m_text # None /\ \E tok \in Tokens(m_text) : ToLower(tok) \in TermForms(t)))
            /\ t \in m_result[cat] => Contains(ToLower(m_text), ToLower(t))

\* C11 witness: the matcher ran on "Stingrays" and reported the term
\* stingray and not the term ray.
C11_Witness ==
    /\ m_pc = "return"
    /\ m_text = <<"S", "t", "i", "n", "g", "r", "a", "y", "s">>
    /\ m_result.sharks_rays = {<<"s", "t", "i", "n", "g", "r", "a", "y">>}

-----------------------------------------------------------------------------
(* C12-C14, C20: the records of the scan *)

\* the reader's return value is an error marker
IsErrorMarker(text) == text # None /\ StartsWith(text, <<"E", "R", "R", "O", "R", ":">>)

\* the terms a category field lists, in order
FieldTerms(field) ==
    IF field = <<>> THEN <<>>
    ELSE [k \in 1..Len(Split(field, ",")) |-> Strip(Split(field, ",")[k])]

\* the terms of the category matched in the text the reader returned
ContentTerms(text, cat) ==
    IF text = None THEN {} ELSE find_matches_in_text(text)[cat]

CategoryFieldsEmpty(rec) == \A cat \in DOMAIN SEARCH_CATEGORIES : rec[cat] = <<>>

\* the reader of the i-th target failed
ReaderFailed(i) == sc_read[i].outcome.failure # "no"

\* C13 as claimed: whichever readers fail, the scan loop ends with exactly one
\* record per target, in target order; each target whose reader failed has
\* status error and every category field empty, and every other target has
\* status success.
C13_FailedTargetsAreErrors ==
    sc_pc = "done" =>
        /\ Len(sc_results) = Len(sc_files)
        /\ \A i \in 1..Len(sc_results) :
              /\ sc_results[i].file_path = sc_files[i].path
              /\ ReaderFailed(i) =>
                    sc_results[i].status = ERROR_STATUS /\ CategoryFieldsEmpty(sc_results[i])
              /\ ~ReaderFailed(i) => sc_results[i].status = SUCCESS

\* the columns of the scan artifact: fieldnames of main, line 528
ScanFields ==
    {"file_path", "file_name", "file_type", "status", "error"} \cup DOMAIN SEARCH_CATEGORIES

\* C14: every record scan_file produced, whatever its status and whatever the
\* reader returned, has exactly the fields file_path, file_name, file_type,
\* status, error and one field per configured category; each category field
\* is a string, and the written artifact holds the same records.
C14_RecordsHaveAllFields ==
    /\ \A i \in 1..Len(sc_results) :
          /\ DOMAIN sc_results[i] = ScanFields
          /\ \A cat \in DOMAIN SEARCH_CATEGORIES : sc_results[i][cat] \in Seq(CharSet)
          /\ sc_results[i].status \in {SUCCESS, ERROR_STATUS}
    /\ sc_csv.exists => sc_csv.content = sc_results

\* C14 witness: a scan was written that holds an error record, a record of a
\* reader that returned None and a record of a reader that returned no text.
C14_Witness ==
    /\ sc_pc = "done"
    /\ \E i, j, k \in 1..Len(sc_results) :
          /\ sc_results[i].status = ERROR_STATUS
          /\ sc_read[j].text = None
          /\ sc_read[k].text = <<>>

-----------------------------------------------------------------------------
(* C15, C16: the scan targets *)

\* the directories of the tree under dir, dir included: each with its path,
\* its name and the names of the directories above it
RECURSIVE TreeDirs(_, _, _)
TreeDirs(dirpath, parents, dir) ==
    {[path |-> dirpath, name |-> dir.name, parents |-> parents]}
    \cup UNION {TreeDirs(path_join(dirpath, dir.dirs[k].name), Append(parents, dir.name),
                         dir.dirs[k]) : k \in 1..Len(dir.dirs)}

ScannedDirs == TreeDirs(ROOT_PATH, <<>>, sc_tree)

\* the name ends in .gdb, in any letter case
EndsInGdb(name) ==
    Len(name) >= 4 /\ ToLower(SubSeq(name, Len(name) - 3, Len(name))) = <<".", "g", "d", "b">>

\* the path lies inside a directory whose name ends in .gdb
InsideGdbDir(path) ==
    \E d \in ScannedDirs : EndsInGdb(d.name) /\ StartsWith(path, d.path \o <<"\\">>)

\* C15 as claimed: once the tree is walked, each directory whose name ends
\* in .gdb and that is not inside another such directory is exactly one scan
\* target, of type geodatabase, and nothing located inside a .gdb directory
\* is a scan target.
C15_GdbDirectoriesAreAtomic ==
    sc_pc \in {"scanning", "done"} =>
        /\ \A d \in ScannedDirs :
              (EndsInGdb(d.name) /\ \A k \in 1..Len(d.parents) : ~EndsInGdb(d.parents[k])) =>
                  /\ Cardinality({i \in 1..Len(sc_files) : sc_files[i].path = d.path}) = 1
                  /\ \A i \in 1..Len(sc_files) :
                        sc_files[i].path = d.path => sc_files[i].type = GEODATABASE
        /\ \A i \in 1..Len(sc_files) : ~InsideGdbDir(sc_files[i].path)

\* the files of the tree under dir, each with its path, name and size
RECURSIVE TreeFiles(_, _)
TreeFiles(dirpath, dir) ==
    {[path |-> path_join(dirpath, dir.files[k].name), name |-> dir.files[k].name,
      size |-> dir.files[k].size] : k \in 1..Len(dir.files)}
    \cup UNION {TreeFiles(path_join(dirpath, dir.dirs[k].name), dir.dirs[k]) :
                   k \in 1..Len(dir.dirs)}

ScannedFiles == TreeFiles(ROOT_PATH, sc_tree)

\* the lower-cased extension of a file name
Extension(name) == ToLower(splitext_ext(name))

\* the recognized extensions and the one type of each
ExtensionTypes ==
    {<<<<".", "s", "h", "p">>, SHAPEFILE>>, <<<<".", "x", "l", "s", "x">>, EXCEL>>, <<<<".", "x", "l", "s">>, EXCEL>>, <<<<".", "c", "s", "v">>, CSV>>,
     <<<<".", "p", "d", "f">>, PDF>>, <<<<".", "g", "p", "x">>, GPX>>}

\* the file is to be left out: skipped extension, unrecognized extension or
\* a size above the ceiling
LeftOut(f) ==
    \/ Extension(f.name) \in SKIP_EXTENSIONS
    \/ Extension(f.name) \notin {et[1] : et \in ExtensionTypes}
    \/ f.size > MAX_FILE_SIZE_MB * 1024 * 1024

\* C16: a file whose extension is in the skip set or is not recognized, or
\* whose size is above the ceiling, is never a scan target and never gets a
\* record; every file target carries the one type of its extension, and every
\* record is the record of a target.
C16_SkippedFilesLeaveNoTrace ==
    /\ \A f \in ScannedFiles :
          LeftOut(f) =>
              /\ \A i \in 1..Len(sc_files) : sc_files[i].path # f.path
              /\ \A i \in 1..Len(sc_results) : sc_results[i].file_path # f.path
    /\ \A i \in 1..Len(sc_files) :
          sc_files[i].type # GEODATABASE =>
              <<Extension(sc_files[i].name), sc_files[i].type>> \in ExtensionTypes
    /\ \A i \in 1..Len(sc_results) :
          i <= Len(sc_files) /\ sc_results[i].file_path = sc_files[i].path

\* C16 witness: a scan is complete over a tree that holds a file above the
\* size ceiling and a file of a skipped extension, and it has records.
C16_Witness ==
    /\ sc_pc = "done"
    /\ sc_results # <<>>
    /\ \E f \in ScannedFiles : f.size > MAX_FILE_SIZE_MB * 1024 * 1024
    /\ \E f \in ScannedFiles : Extension(f.name) \in SKIP_EXTENSIONS
    /\ \E i \in 1..Len(sc_files) : sc_files[i].name = <<"B", ".", "C", "S", "V">> /\ sc_files[i].type = CSV

\* C20: scan_file gives status error exactly when the reader returned a
\* non-empty string that begins with "ERROR:", and then every category field
\* is empty and the error field is that string, also when the reader did not
\* fail and the content itself begins with "ERROR:"; read_csv_file returns
\* None when every encoding fails, and a reader's None or empty text gives
\* status success with the category fields computed from the path alone.
C20_ErrorIffMarkerReturned ==
    \A i \in 1..Len(sc_results) :
        LET text == sc_read[i].text
            rec == sc_results[i]
        IN  /\ rec.status = (IF IsErrorMarker(text) THEN ERROR_STATUS ELSE SUCCESS)
            /\ IsErrorMarker(text) => CategoryFieldsEmpty(rec) /\ rec.error = text
            /\ (sc_files[i].type = CSV /\ sc_read[i].outcome.failure = "read") => text = None
            /\ (~ReaderFailed(i) /\ StartsWith(sc_read[i].outcome.content, <<"E", "R", "R", "O", "R", ":">>)) =>
                  rec.status = ERROR_STATUS
            /\ (text = None \/ text = <<>>) =>
                  /\ rec.status = SUCCESS
                  /\ rec.error = <<>>
                  /\ \A cat \in DOMAIN SEARCH_CATEGORIES :
                        rec[cat] = Join(SortStrings(find_matches_in_text(sc_files[i].path)[cat]), <<",", " ">>)

\* C20 witness: the records hold a csv target whose reader returned None
\* with status success, a target of empty text whose fields come from its
\* path, and a target read without failure whose content begins with "ERROR:"
\* with status error.
C20_Witness ==
    \E i, j, k \in 1..Len(sc_results) :
        /\ sc_read[i].text = None /\ sc_results[i].status = SUCCESS
        /\ sc_read[j].text = <<>> /\ sc_results[j].places = <<"r", "e", "e", "f">>
        /\ ~ReaderFailed(k) /\ sc_results[k].status = ERROR_STATUS

-----------------------------------------------------------------------------
(* C19: the order of the parts of prepare_index.build_searchable_text *)

\* the segments of a path in path order: its maximal runs of characters that
\* are neither '/' nor '\'
RECURSIVE PathSegments(_, _)
PathSegments(path, cur) ==
    IF path = <<>> THEN (IF cur = <<>> THEN <<>> ELSE <<cur>>)
    ELSE IF Head(path) \in {"/", "\\"}
         THEN (IF cur = <<>> THEN <<>> ELSE <<cur>>) \o PathSegments(Tail(path), <<>>)
         ELSE PathSegments(Tail(path), Append(cur, Head(path)))

\* the last 4 of the segments that do not start with '.' and hold no ':',
\* joined by single blanks
PathContext(path) ==
    LET kept == SelectSeq(PathSegments(path, <<>>),
                          LAMBDA seg : seg[1] # "." /\ \A i \in 1..Len(seg) : seg[i] # ":")
    IN  Join(SubSeq(kept, IF Len(kept) > 4 THEN Len(kept) - 3 ELSE 1, Len(kept)), <<" ">>)

\* the fields of the record in the order of the text, name three times and
\* species twice
OrderedFields(r) ==
    <<r.name, r.name, r.name, r.species, r.species, r.activity, r.filename_tokens, r.fields>>

NonEmptyParts(parts) == SelectSeq(parts, LAMBDA part : part # <<>>)

\* C19 as claimed: the text is name (x3), species (x2), activity, filename
\* tokens, fields and path context, in this order, every empty part omitted,
\* joined by single blanks; the path context is the last 4 meaningful
\* segments of the path.
C19_PartsInOrderEmptyOmitted ==
    \A i \in 1..Len(p_all_records) :
        LET r == p_all_records[i]
        IN  r.searchable_text =
                Join(NonEmptyParts(OrderedFields(r) \o <<PathContext(r.path)>>), <<" ">>)

\* C19 as amended: as claimed, except that the path context is a part
\* whenever the path is non-empty, also when no segment of the path is
\* meaningful: the context is then empty and the text, if it has other parts,
\* ends with a blank.
C19_PartsInOrderPathAlways ==
    \A i \in 1..Len(p_all_records) :
        LET r == p_all_records[i]
        IN  r.searchable_text =
                Join(NonEmptyParts(OrderedFields(r))
                     \o (IF r.path # <<>> THEN <<PathContext(r.path)>> ELSE <<>>), <<" ">>)

\* C19 witness: a record with every field present and a path of more than 4
\* meaningful segments has been given its text.
C19_Witness ==
    \E i \in 1..Len(p_all_records) :
        LET r == p_all_records[i]
        IN  /\ r.name # <<>> /\ r.species # <<>> /\ r.activity # <<>>
            /\ r.filename_tokens # <<>> /\ r.fields # <<>>
            /\ Len(PathSegments(r.path, <<>>)) > 4
            /\ r.searchable_text # <<>>

-----------------------------------------------------------------------------
(* C17: the start of the query service *)

\* C17: a request is served only by a service that loaded both artifacts,
\* and its records, categories, filter tables and embedding matrix are then
\* the content of the two files; a load that finds its artifact absent ends
\* the start, and a service whose start failed never serves a request, so no
\* request meets an index of which only one part was loaded.
C17_NoServiceOnMissingArtifact ==
    /\ [](h_handler # "none" => svc_pc = "serving")
    /\ [](svc_pc = "serving" =>
            /\ file_index.exists /\ file_embeddings.exists
            /\ records = file_index.content.records
            /\ categories = file_index.content.categories
            /\ filters = file_index.content.filters
            /\ embeddings = file_embeddings.content)
    /\ [][/\ (svc_pc = "down" /\ ~file_index.exists /\ svc_pc' # svc_pc) => svc_pc' = "failed"
          /\ (svc_pc = "index_loaded" /\ ~file_embeddings.exists /\ svc_pc' # svc_pc)
                => svc_pc' = "failed"
          /\ svc_pc = "failed" => (svc_pc' = "failed" /\ hvars' = hvars)]_vars

\* C17 witness: the service loaded a non-empty search_index.json, found no
\* search_embeddings.npy, and its start failed without a request served.
C17_Witness ==
    /\ svc_pc = "failed"
    /\ records # <<>>
    /\ file_index.exists /\ ~file_embeddings.exists
    /\ h_handler = "none"

-----------------------------------------------------------------------------
(* C18: the handlers leave the loaded index alone *)

\* the responses the handler would give when run alone on the loaded index
AloneResponses(handler, req) ==
    CASE handler = "search" /\ InvalidPattern(req) -> {error_response(req)}
      [] handler = "search" /\ ~InvalidPattern(req) ->
            SearchResponses(records, categories, embeddings, req)
      [] handler = "filters" -> {[categories |-> categories, options |-> filters]}
      [] handler = "stats" ->
            {[total_files |-> Len(records), by_type |-> type_counts(records),
              by_category |-> category_counts(records, categories)]}
      [] OTHER -> {}

\* C18: no step of search, get_filters or get_stats changes the loaded
\* records, embedding matrix, category list or filter tables, and however the
\* steps of concurrent requests interleave, the response of each request is a
\* response the same request gets when it runs alone on the loaded index.
C18_HandlersOnlyRead ==
    /\ [][svars' = svars]_vars
    /\ [](\A c \in Clients :
            calls[c].pc = "returned" =>
                calls[c].response \in AloneResponses(calls[c].handler, calls[c].req))

\* C18 witness: one search has returned results while another search, with
\* other parameters, is between its ranking and the building of its results.
C18_Witness ==
    \E c, d \in Clients :
        /\ calls[c].pc = "returned" /\ calls[c].handler = "search"
        /\ "results" \in DOMAIN calls[c].response
        /\ calls[c].response.showing = 2
        /\ calls[d].pc = "build" /\ calls[d].req # calls[c].req
        /\ calls[d].ranked_indices # <<>>

-----------------------------------------------------------------------------
(* C21: build_index.main indexes exactly the successful scan rows *)

\* the positions of the scan rows whose status is success
SuccessPositions == {i \in 1..Len(b_csv) : b_csv[i].status = SUCCESS}

\* the position in the scan of the k-th successful row
SuccessPosition(k) ==
    CHOOSE i \in SuccessPositions : Cardinality({j \in SuccessPositions : j <= i}) = k

\* the value of a category that a row carries: none when the cell is empty
RowValue(row, cat) == IF row[cat] = NaN THEN <<>> ELSE row[cat]

\* C21: once build_index.main has built its records, there is one record per
\* scan row of status success, in scan order, carrying that row's path, name,
\* type and category values; no row of another status has a record; every
\* published filter option is part of a successful row's value for the
\* category; and the embedding matrix, once computed and once saved, has one
\* row per successful scan row.
C21_IndexesExactlySuccessRows ==
    b_pc \in {"built", "index_saved", "encoded", "done"} =>
        /\ Len(b_records) = Cardinality(SuccessPositions)
        /\ \A k \in 1..Len(b_records) :
              /\ b_records[k].file_path = b_csv[SuccessPosition(k)].file_path
              /\ b_records[k].file_name = b_csv[SuccessPosition(k)].file_name
              /\ b_records[k].file_type = b_csv[SuccessPosition(k)].file_type
              /\ \A cat \in CategorySet :
                    b_records[k][cat] = RowValue(b_csv[SuccessPosition(k)], cat)
        /\ \A i \in (1..Len(b_csv)) \ SuccessPositions :
              \A k \in 1..Len(b_records) : b_records[k].file_path # b_csv[i].file_path
        /\ \A cat \in CategorySet :
              \A v \in SeqRange(b_filter_options[cat]) :
                  \E i \in SuccessPositions : Contains(RowValue(b_csv[i], cat), v)
        /\ b_pc \in {"encoded", "done"} =>
              Len(b_embeddings) = Cardinality(SuccessPositions)
        /\ b_pc = "done" =>
              /\ Len(file_index.content.records) = Cardinality(SuccessPositions)
              /\ Len(file_embeddings.content) = Cardinality(SuccessPositions)

\* C21 witness: a build has completed over a scan whose first row is an error
\* row and whose second row is a successful one, and holds the one record of
\* the second row.
C21_Witness ==
    /\ b_pc = "done"
    /\ Len(b_csv) = 2
    /\ b_csv[1].status = ERROR_STATUS
    /\ b_csv[2].status = SUCCESS
    /\ Len(b_records) = 1
    /\ b_records[1].file_path = b_csv[2].file_path
    /\ Len(file_embeddings.content) = 1

-----------------------------------------------------------------------------
(* C22: every published filter option selects at least one record *)

\* the request sets category cat to value v and no other filter
IsOptionRequest(req, cat, v) ==
    /\ req[cat] = v
    /\ \A k \in (CategorySet \ {cat}) \cup {"file_type", "include", "exclude"} :
          req[k] = None

\* C22: on a service started on the index of one completed build, a search
\* that sets one category c to a value v of filters[c] and no other filter
\* answers with total_matches >= 1, and every record it matched, and every
\* result row it returns, has v as a case-insensitive substring of its value
\* for c.
C22_EveryOptionSelectsARecord ==
    h_handler = "search" =>
        \A cat \in CategorySet :
            \A v \in SeqRange(filters[cat]) :
                IsOptionRequest(h_request, cat, v) =>
                    /\ "total_matches" \in DOMAIN h_response
                    /\ h_response.total_matches >= 1
                    /\ \A k \in 1..Len(h_ranked) :
                          Contains(ToLower(records[h_ranked[k]][cat]), ToLower(v))
                    /\ \A k \in 1..Len(h_response.results) :
                          /\ cat \in DOMAIN h_response.results[k]
                          /\ Contains(ToLower(h_response.results[k][cat]), ToLower(v))

\* C22 witness: a search by a published option of places matched two records,
\* one of which holds the option only in another letter case.
C22_Witness ==
    /\ h_handler = "search"
    /\ h_request.places \in SeqRange(filters.places)
    /\ IsOptionRequest(h_request, "places", h_request.places)
    /\ h_response.total_matches = 2
    /\ Len(h_response.results) = 2
    /\ \E k \in 1..2 : ~Contains(h_response.results[k].places, h_request.places)

====
